---- MODULE Spec2Model ----
(***************************************************************************)
(* A model of gocnn/gym: the environment registry (gym.go) and the seeded  *)
(* random-number service (rand/rand.go).                                   *)
(*                                                                         *)
(* Strings are sequences of one-character strings; a Go pointer to a       *)
(* string or an int is a sequence of length 0 (nil) or 1.                  *)
(***************************************************************************)
EXTENDS Integers, Sequences, FiniteSets, TLC

(***************************************************************************)
(* Bounds of the model.                                                    *)
(***************************************************************************)
\* longest raw id string handed to ParseEnvID
MaxIdLen == 4
\* longest name component handed to GetEnvID
MaxNameLen == 4
\* largest version handed to GetEnvID
MaxVersion == 11

None == <<>>
Some(x) == <<x>>

(***************************************************************************)
(* Characters.  The regular expression of gym.go:44 uses the classes \w,   *)
(* \d and the literals ':', '.', '-', '/'.                                 *)
(***************************************************************************)
DigitChars == <<"0", "1", "2", "3", "4", "5", "6", "7", "8", "9">>
Digits == {DigitChars[i] : i \in 1..10}
Letters == {"a", "n", "v"}
\* the characters raw ids are drawn from: two letters, two digits, the
\* separators of the grammar and two characters outside it
Alphabet == {"a", "v", "0", "1", "-", "/", ".", " "}

IsDigit(c) == c \in Digits
IsWordChar(c) == c \in Letters \cup Digits \cup {"_"}
IsNamespaceChar(c) == IsWordChar(c) \/ c \in {":", "-"}
IsNameCharBuggy(c) == IsWordChar(c) \/ c \in {":", ".", "-", " "}
IsNameChar(c) == IsWordChar(c) \/ c \in {":", ".", "-"}

Tail0(s, k) == SubSeq(s, k + 1, Len(s))

\* (?:-v(?P<version>\d+))$ matched against the whole remainder r
IsVersionSuffix(r) ==
    /\ Len(r) >= 3
    /\ r[1] = "-"
    /\ r[2] = "v"
    /\ \A i \in 3..Len(r) : IsDigit(r[i])

\* the lengths k of a prefix of r that (?P<name>[\w:.-]+?) can take so that
\* the optional version group and $ match what is left
NameEnds(r) ==
    {k \in 1..Len(r) :
        /\ \A i \in 1..k : IsNameChar(r[i])
        /\ (k = Len(r) \/ IsVersionSuffix(Tail0(r, k)))}

\* the positions j of the '/' that can end (?:(?P<namespace>[\w:-]+)\/)
NamespaceEnds(s) ==
    {j \in 2..Len(s) :
        /\ s[j] = "/"
        /\ \A i \in 1..(j - 1) : IsNamespaceChar(s[i])
        /\ NameEnds(Tail0(s, j)) # {}}

SetMin(S) == CHOOSE x \in S : \A y \in S : x <= y
SetMax(S) == CHOOSE x \in S : \A y \in S : x >= y

\* envIDRegex.FindStringSubmatch: leftmost-first matching.  The optional
\* namespace group is greedy (taken when the rest can match), the name is
\* lazy (the shortest prefix that lets the rest match).
RegexMatch(s) ==
    LET nsEnds == NamespaceEnds(s)
        j == IF nsEnds # {} THEN SetMax(nsEnds) ELSE 0
        rest == Tail0(s, j)
        ends == NameEnds(rest)
    IN  IF ends = {}
        THEN [matched |-> FALSE, namespace |-> <<>>, name |-> <<>>, version |-> <<>>]
        ELSE LET k == SetMin(ends)
             IN  [matched |-> TRUE,
                  namespace |-> IF j = 0 THEN <<>> ELSE SubSeq(s, 1, j - 1),
                  name |-> SubSeq(rest, 1, k),
                  version |-> IF k = Len(rest) THEN <<>> ELSE Tail0(rest, k + 2)]

DigitValue(c) == (CHOOSE i \in 1..10 : DigitChars[i] = c) - 1

RECURSIVE StripZeros(_)
StripZeros(v) ==
    IF Len(v) > 1 /\ v[1] = "0" THEN StripZeros(Tail(v)) ELSE v

RECURSIVE DigitsValue(_)
DigitsValue(v) ==
    IF v = <<>> THEN 0
    ELSE 10 * DigitsValue(SubSeq(v, 1, Len(v) - 1)) + DigitValue(v[Len(v)])

\* the decimal digits of the largest int (2^63 - 1)
MaxIntDigits ==
    <<"9", "2", "2", "3", "3", "7", "2", "0", "3", "6", "8", "5", "4", "7", "7",
      "5", "8", "0", "7">>

RECURSIVE DigitsLeq(_, _)
\* a <= b for two digit strings of the same length
DigitsLeq(a, b) ==
    IF a = <<>> THEN TRUE
    ELSE IF DigitValue(a[1]) < DigitValue(b[1]) THEN TRUE
    ELSE IF DigitValue(a[1]) > DigitValue(b[1]) THEN FALSE
    ELSE DigitsLeq(Tail(a), Tail(b))

\* strconv.Atoi on a non-empty string of decimal digits: the value, or a
\* range error when it does not fit an int
Atoi(v) ==
    LET sig == StripZeros(v)
        fits == \/ Len(sig) < Len(MaxIntDigits)
                \/ Len(sig) = Len(MaxIntDigits) /\ DigitsLeq(sig, MaxIntDigits)
    IN  IF fits THEN [ok |-> TRUE, val |-> DigitsValue(sig)]
        ELSE [ok |-> FALSE, val |-> 0]

ParseEnvID(envID) ==
    LET m == RegexMatch(envID)
    IN  IF ~m.matched
        THEN [err |-> "malformed", namespace |-> None, name |-> <<>>, version |-> None]
        ELSE [err |-> "",
              namespace |-> IF m.namespace # <<>> THEN Some(m.namespace) ELSE None,
              name |-> m.name,
              version |-> IF m.version # <<>> /\ Atoi(m.version).ok
                          THEN Some(Atoi(m.version).val) ELSE None]

RECURSIVE ItoaNat(_)
ItoaNat(n) ==
    IF n < 10 THEN <<DigitChars[n + 1]>>
    ELSE ItoaNat(n \div 10) \o <<DigitChars[(n % 10) + 1]>>

\* fmt's %d
Itoa(n) == IF n < 0 THEN <<"-">> \o ItoaNat(0 - n) ELSE ItoaNat(n)

GetEnvIDNoVersion(namespace, name, version) ==
    IF namespace # None THEN namespace[1] \o <<"/">> \o name ELSE name

GetEnvID(namespace, name, version) ==
    LET fullName == IF namespace # None
                    THEN namespace[1] \o <<"/">> \o name
                    ELSE name
    IN  IF version # None
        THEN fullName \o <<"-", "v">> \o Itoa(version[1])
        ELSE fullName

(***************************************************************************)
(* Bounded input sets.                                                     *)
(***************************************************************************)
RECURSIVE StringsUpTo(_, _)
StringsUpTo(A, n) ==
    IF n = 0 THEN {<<>>}
    ELSE LET shorter == StringsUpTo(A, n - 1)
         IN  shorter \cup {Append(s, c) : s \in shorter, c \in A}

RawIds == StringsUpTo(Alphabet, MaxIdLen)

\* the components GetEnvID is given: valid by the grammar
NamespaceInputs == {None, Some(<<"n">>), Some(<<"a", "-">>)}
NameInputs ==
    {s \in StringsUpTo({"a", "v", "1", "-", "."}, MaxNameLen) :
        Len(s) >= 1}
VersionInputs == {None} \cup {Some(v) : v \in 0..MaxVersion}

(***************************************************************************)
(* The registry (gym.go).  An EnvCreator is named by a string; the type    *)
(* parameters [ObsType, ActType] of an EnvCreator, an EnvSpec or a Make    *)
(* call are one string.  A kwargs map is a function from a set of keys.    *)
(***************************************************************************)
\* the most override maps one Make / MakeAny call is given
MaxOverrides == 2

EntryPoints == {"newEnv", "newOther", "failing"}
TypePairs == {"[]float64,int", "int,int"}

\* the type parameters an EnvCreator value was declared with
TypeOf(entryPoint) == IF entryPoint = "newOther" THEN "int,int" ELSE "[]float64,int"

EmptyMap == [k \in {} |-> 0]
KwA == [k \in {"k1"} |-> 1]
KwB == [k \in {"k1", "k2"} |-> IF k = "k1" THEN 2 ELSE 1]
KwC == [k \in {"k1"} |-> 3]
KwD == [k \in {"k1", "k2"} |-> IF k = "k1" THEN 4 ELSE 3]

\* the option lists Register is called with
OptionLists ==
    {<<>>,
     <<[fn |-> "WithKwargs", arg |-> KwB], [fn |-> "WithMaxEpisodeSteps", arg |-> 3]>>,
     <<[fn |-> "WithKwargs", arg |-> KwB], [fn |-> "WithKwargs", arg |-> KwA],
       [fn |-> "WithRewardThreshold", arg |-> 475],
       [fn |-> "WithNondeterministic", arg |-> TRUE]>>}

RECURSIVE SeqsUpTo(_, _)
SeqsUpTo(S, n) ==
    IF n = 0 THEN {<<>>}
    ELSE LET shorter == SeqsUpTo(S, n - 1)
         IN  shorter \cup {Append(q, x) : q \in shorter, x \in S}

\* the override maps Make / MakeAny are called with
OverrideLists == SeqsUpTo({KwC, KwD}, MaxOverrides)

\* the raw ids the registry is called with: three in the grammar (two of them
\* naming the same environment) and three outside it
RegIds ==
    {<<"a", "-", "v", "1">>, <<"a", "-", "v", "0", "1">>, <<"n", "/", "a">>,
     <<"a", " ", "v">>, <<>>, <<"n", "/", "/", "a">>}

\* for k, v := range kw { config[k] = v }
MergeIntoDefaultsWin(config, kw) ==
    [k \in DOMAIN config \cup DOMAIN kw |->
        IF k \in DOMAIN config THEN config[k] ELSE kw[k]]

MergeInto(config, kw) ==
    [k \in DOMAIN config \cup DOMAIN kw |->
        IF k \in DOMAIN kw THEN kw[k] ELSE config[k]]

RECURSIVE MergeAll(_, _)
\* for _, kw := range kwargs { for k, v := range kw { config[k] = v } }
MergeAll(config, kwargs) ==
    IF kwargs = <<>> THEN config
    ELSE MergeAll(MergeInto(config, Head(kwargs)), Tail(kwargs))

\* one option function of gym.go:127-151 applied to a spec
ApplyOption(spec, option) ==
    CASE option.fn = "WithRewardThreshold" ->
            [spec EXCEPT !.RewardThreshold = Some(option.arg)]
      [] option.fn = "WithMaxEpisodeSteps" ->
            [spec EXCEPT !.MaxEpisodeSteps = Some(option.arg)]
      [] option.fn = "WithNondeterministic" ->
            [spec EXCEPT !.Nondeterministic = option.arg]
      [] option.fn = "WithKwargs" ->
            [spec EXCEPT !.Kwargs = MergeInto(spec.Kwargs, option.arg)]

RECURSIVE ApplyOptions(_, _)
\* for _, option := range options { option(spec) }
ApplyOptions(spec, options) ==
    IF options = <<>> THEN spec
    ELSE ApplyOptions(ApplyOption(spec, Head(options)), Tail(options))

\* the EnvSpec literal of Register, before any option
NewEnvSpec(parsed, entryPoint) ==
    [ty |-> TypeOf(entryPoint),
     ID |-> GetEnvID(parsed.namespace, parsed.name, parsed.version),
     EntryPoint |-> entryPoint,
     RewardThreshold |-> None,
     Nondeterministic |-> FALSE,
     MaxEpisodeSteps |-> None,
     OrderEnforce |-> TRUE,
     DisableEnvChecker |-> FALSE,
     Kwargs |-> EmptyMap,
     Namespace |-> parsed.namespace,
     Name |-> parsed.name,
     Version |-> parsed.version]

\* what calling an EnvCreator with a configuration returns: an environment
\* that remembers how it was made, or an error
Invoke(entryPoint, config) ==
    IF entryPoint = "failing"
    THEN [env |-> None, err |-> "construction failed"]
    ELSE [env |-> Some([entryPoint |-> entryPoint, config |-> config]), err |-> ""]

\* registry.specs[key] = spec
PutSpecKeepFirst(m, key, spec) ==
    IF key \in DOMAIN m THEN m
    ELSE [k \in DOMAIN m \cup {key} |-> IF k = key THEN spec ELSE m[k]]

PutSpec(m, key, spec) ==
    [k \in DOMAIN m \cup {key} |-> IF k = key THEN spec ELSE m[k]]

\* the record of the latest registration of a key
Latest(m, key, registration) ==
    [k \in DOMAIN m \cup {key} |-> IF k = key THEN registration ELSE m[k]]

\* the orders in which ranging over a map with the keys S can visit them
Orders(S) ==
    {q \in SeqsUpTo(S, Cardinality(S)) :
        Len(q) = Cardinality(S) /\ \A i, j \in 1..Len(q) : i # j => q[i] # q[j]}

NoParse == [err |-> "", namespace |-> None, name |-> <<>>, version |-> None]

NoCall ==
    [op |-> "none", id |-> <<>>, ty |-> "", entryPoint |-> "", options |-> <<>>,
     overrides |-> <<>>, err |-> "", env |-> None, spec |-> None, ids |-> <<>>,
     invoked |-> <<>>, applied |-> 0]

VARIABLES
    \* one call of ParseEnvID, or of ParseEnvID(GetEnvID(..)): its arguments,
    \* whether it has run, and what it returned
    idCall,
    \* registry.specs: the registered specs by id
    specs,
    \* the last call on the registry: its arguments, what it returned, the
    \* EnvCreator calls it made (invoked) and the options it applied (applied)
    call,
    \* for each registered id, the arguments of the latest Register that
    \* stored it
    latest,
    \* registry.mu: the goroutine that holds or waits for the write lock (0:
    \* none) and how many read locks each goroutine holds
    mu,
    \* for each goroutine, the stack of registry calls it is in, innermost last
    stack,
    \* the ids whose Register has been called, and those whose Register has
    \* returned nil
    begun,
    done,
    \* an RNG handle: nil, or the generator state (r.rng) and seed (r.seed)
    rng,
    \* the last call on the RNG, made alone: its arguments and what it returned
    rcall,
    \* r.mu, as registry.mu
    rmu,
    \* for each goroutine, the RNG call it is in
    gor,
    \* the RNGs that exist, by address: each the generator state and the seed
    rngs,
    \* defaultRNG of package rand: nil, or the address of the singleton
    defaultRNG,
    \* the Space instances that exist, by address
    spaces,
    \* one Space that is followed from a successful Seed(s), s > 0, of its
    \* own: the Space, the seed and how many times its Sample has returned since
    trail,
    \* the last call on a Space: its arguments and what it returned
    scall,
    \* the CartPoleEnv instances that exist, by address
    envs,
    \* the last call on an environment: its arguments and what it returned
    ecall,
    \* for each environment, its episode since the last Reset: whether a Step
    \* has reported terminated, how many Steps with a valid action were made
    \* since, and how many times the warning was printed
    episodes,
    \* one successful Reset(seed, options), seed > 0, that is remembered: nil,
    \* or its environment, its seed, its options and the observation it
    \* returned
    memo

idVars == <<idCall>>
regVars == <<specs, call, latest>>
concVars == <<mu, stack, begun, done>>
rngVars == <<rng, rcall, rmu, gor>>
spaceVars == <<rngs, defaultRNG, spaces, trail, scall>>
envVars == <<envs, ecall, episodes, memo>>
vars == <<idCall, specs, call, latest, mu, stack, begun, done, rng, rcall, rmu, gor,
          rngs, defaultRNG, spaces, trail, scall, envs, ecall, episodes, memo>>
\* what the registry's operations, called one after the other, leave alone
notRegVars == <<idCall, mu, stack, begun, done, rng, rcall, rmu, gor, spaceVars, envVars>>
\* what the registry's operations, called concurrently, leave alone
notConcVars == <<idCall, call, latest, rng, rcall, rmu, gor, spaceVars, envVars>>
\* what the RNG's operations leave alone
notRngVars == <<idCall, specs, call, latest, mu, stack, begun, done, spaceVars, envVars>>
\* what the operations of the Spaces and of the environments leave alone
notSpaceVars == <<idCall, specs, call, latest, mu, stack, begun, done, rng, rcall, rmu, gor>>

(***************************************************************************)
(* The RNG (rand/rand.go).  The generator of math/rand/v2 is a permuted    *)
(* congruential generator: its state after NewPCG(seed, seed) is a         *)
(* function of the seed, and each draw steps the state and returns a       *)
(* function of the new state.  The model keeps that at a small modulus.    *)
(***************************************************************************)
\* the number of generator states
PcgModulus == 16
\* the largest seed a caller gives
MaxSeed == 2
\* the largest n a caller gives
MaxN == 3

\* what time.Now().UnixNano() returns
TimeSeeds == {7, 11}
Seeds == (0 - 1)..MaxSeed
Sizes == (0 - 1)..MaxN

\* rand.NewPCG(uint64(seed), uint64(seed))
PcgNew(seed) == seed % PcgModulus
\* one step of the generator
PcgNext(state) == (5 * state + 1) % PcgModulus

\* &RNG{rng: rand.New(source), seed: effectiveSeed}
RngOf(effectiveSeed) == [state |-> PcgNew(effectiveSeed), seed |-> effectiveSeed]

\* the effective seeds of a valid seed: itself, or the time when it is 0
EffectiveSeeds(seed) == IF seed = 0 THEN TimeSeeds ELSE {seed}

\* r.rng.Uint64(): the generator after the draw, and the value drawn
Draw(r) == [rng |-> [r EXCEPT !.state = PcgNext(r.state)], value |-> PcgNext(r.state)]

RECURSIVE Shuffled(_, _, _)
\* r.rng.Shuffle on the slice p from index i down: for i > 0, draw j in
\* [0, i] and swap p[i], p[j] (indices from 0)
Shuffled(r, p, i) ==
    IF i <= 0 THEN [rng |-> r, value |-> p]
    ELSE LET d == Draw(r)
             j == d.value % (i + 1)
             q == [p EXCEPT ![i + 1] = p[j + 1], ![j + 1] = p[i + 1]]
         IN  Shuffled(d.rng, q, i - 1)

\* the operations that take the lock, draw once and return
PlainOps == {"Int63", "Int", "Int64", "Uint64", "Float32", "Float64",
             "NormFloat64", "ExpFloat64"}
\* the operations that panic on n <= 0, and those that panic on n < 0
BoundedOps == {"IntN", "Int64N"}
CountedOps == {"Perm", "Shuffle"}

\* the panic an operation raises on its argument, before it locks
ArgumentPanics(op, n) ==
    \/ op \in BoundedOps /\ n <= 0
    \/ op \in CountedOps /\ n < 0

\* the value a sampling operation makes of the draws, and the generator
\* afterwards (rand.go:113-210)
Sampled(r, op, n) ==
    LET d == Draw(r)
    IN  CASE op \in {"Int63", "Int"} -> [rng |-> d.rng, value |-> <<d.value \div 2>>]
          [] op \in BoundedOps -> [rng |-> d.rng, value |-> <<d.value % n>>]
          [] op \in CountedOps ->
                Shuffled(r, [i \in 1..n |-> i - 1], n - 1)
          [] OTHER -> [rng |-> d.rng, value |-> <<d.value>>]

\* a call on the RNG: before is the RNG the call was made on
NoRngCall == [op |-> "none", n |-> 0, swap |-> "", ret |-> <<>>, err |-> "", panics |-> FALSE,
              before |-> None]

\* rand.go:41-58
NewRNG(seed) ==
    IF seed < 0
    THEN /\ rcall' = [NoRngCall EXCEPT !.before = rng, !.op = "NewRNG", !.n = seed,
                        !.ret = <<0>>, !.err = "seed must be non-negative"]
         /\ UNCHANGED rng
    ELSE \E effectiveSeed \in EffectiveSeeds(seed) :
            /\ rng' = Some(RngOf(effectiveSeed))
            /\ rcall' = [NoRngCall EXCEPT !.before = rng, !.op = "NewRNG", !.n = seed,
                            !.ret = <<effectiveSeed>>]

\* rand.go:82-100
SeedUnchecked(seed) ==
    \E effectiveSeed \in EffectiveSeeds(IF seed < 0 THEN 0 ELSE seed) :
        /\ rng' = Some(RngOf(effectiveSeed))
        /\ rcall' = [NoRngCall EXCEPT !.before = rng, !.op = "Seed", !.n = seed,
                        !.ret = <<IF seed < 0 THEN 0 ELSE effectiveSeed>>,
                        !.err = IF seed < 0 THEN "seed must be non-negative" ELSE ""]

Seed(seed) ==
    IF seed < 0
    THEN /\ rcall' = [NoRngCall EXCEPT !.before = rng, !.op = "Seed", !.n = seed,
                        !.ret = <<0>>, !.err = "seed must be non-negative"]
         /\ UNCHANGED rng
    ELSE \E effectiveSeed \in EffectiveSeeds(seed) :
            /\ rng' = Some(RngOf(effectiveSeed))
            /\ rcall' = [NoRngCall EXCEPT !.before = rng, !.op = "Seed", !.n = seed,
                            !.ret = <<effectiveSeed>>]

\* rand.go:106-110
GetSeed ==
    /\ rcall' = [NoRngCall EXCEPT !.before = rng, !.op = "GetSeed", !.ret = <<rng[1].seed>>]
    /\ UNCHANGED rng

\* rand.go:113-199: Int63, Int, Int64, Uint64, IntN, Int64N, Float32,
\* Float64, NormFloat64, ExpFloat64, Perm
Sample(op, n) ==
    IF ArgumentPanics(op, n)
    THEN /\ rcall' = [NoRngCall EXCEPT !.before = rng, !.op = op, !.n = n, !.panics = TRUE]
         /\ UNCHANGED rng
    ELSE LET s == Sampled(rng[1], op, n)
         IN  /\ rng' = Some(s.rng)
             /\ rcall' = [NoRngCall EXCEPT !.before = rng, !.op = op, !.n = n, !.ret = s.value]

\* rand.go:203-210: Shuffle(n, swap) with a swap that swaps two elements of
\* the caller's slice, or one that panics when first called
Shuffle(n, swap) ==
    IF ArgumentPanics("Shuffle", n)
    THEN /\ rcall' = [NoRngCall EXCEPT !.before = rng, !.op = "Shuffle", !.n = n, !.swap = swap,
                        !.panics = TRUE]
         /\ UNCHANGED rng
    ELSE IF swap = "panics" /\ n > 1
    THEN /\ rng' = Some(Draw(rng[1]).rng)
         /\ rcall' = [NoRngCall EXCEPT !.before = rng, !.op = "Shuffle", !.n = n, !.swap = swap,
                        !.panics = TRUE]
    ELSE LET s == Sampled(rng[1], "Shuffle", n)
         IN  /\ rng' = Some(s.rng)
             /\ rcall' = [NoRngCall EXCEPT !.before = rng, !.op = "Shuffle", !.n = n, !.swap = swap,
                            !.ret = s.value]

\* a call on a Space: ret holds what it returned
NoSpaceCall == [op |-> "none", space |-> 0, args |-> <<>>, ret |-> <<>>, err |-> "",
                panics |-> FALSE]

\* no RNG on the heap, defaultRNG nil, no Space
SpaceIdle ==
    /\ rngs = <<>>
    /\ defaultRNG = 0
    /\ spaces = <<>>
    /\ trail = [space |-> 0, seed |-> 0, count |-> 0]
    /\ scall = NoSpaceCall

\* Reset's options without "low" and "high" (a nil map is the same to Reset)
NoOptions == [low |-> None, high |-> None]

\* a call on an environment: before holds the environment and its RNG as
\* they were when the call was made, warned whether the call printed the
\* warning
NoEnvCall == [op |-> "none", env |-> 0, action |-> 0, seed |-> 0, options |-> NoOptions,
              obs |-> None, reward |-> 0, terminated |-> FALSE, truncated |-> FALSE,
              err |-> "", warned |-> FALSE, before |-> None]

\* no environment
EnvIdle ==
    /\ envs = <<>>
    /\ ecall = NoEnvCall
    /\ episodes = <<>>
    /\ memo = None

RngIdle ==
    /\ rng = None
    /\ rcall = NoRngCall
    /\ rmu = [writer |-> 0, readers |-> [t \in 1..0 |-> 0]]
    /\ gor = <<>>

DoNewRNG ==
    /\ rcall.op = "none"
    /\ \E seed \in Seeds : NewRNG(seed)
    /\ UNCHANGED <<rmu, gor>>
    /\ UNCHANGED notRngVars

DoSeed ==
    /\ rcall.op = "none"
    /\ rng # None
    /\ \E seed \in Seeds : Seed(seed)
    /\ UNCHANGED <<rmu, gor>>
    /\ UNCHANGED notRngVars

DoGetSeed ==
    /\ rcall.op = "none"
    /\ rng # None
    /\ GetSeed
    /\ UNCHANGED <<rmu, gor>>
    /\ UNCHANGED notRngVars

DoSample ==
    /\ rcall.op = "none"
    /\ rng # None
    /\ \E op \in PlainOps \cup BoundedOps \cup {"Perm"}, n \in Sizes : Sample(op, n)
    /\ UNCHANGED <<rmu, gor>>
    /\ UNCHANGED notRngVars

DoShuffle ==
    /\ rcall.op = "none"
    /\ rng # None
    /\ \E n \in Sizes, swap \in {"swaps", "panics"} : Shuffle(n, swap)
    /\ UNCHANGED <<rmu, gor>>
    /\ UNCHANGED notRngVars

\* the caller is done with what the last call returned
RngReturn ==
    /\ rcall.op # "none"
    /\ rcall' = NoRngCall
    /\ UNCHANGED <<rng, rmu, gor>>
    /\ UNCHANGED notRngVars

(***************************************************************************)
(* The registry's operations, each one whole call.  A call takes the       *)
(* registry lock on entry and holds it to its return, so calls made one    *)
(* after the other are atomic steps.                                       *)
(***************************************************************************)
\* gym.go:93-124
Register(id, entryPoint, options) ==
    LET parsed == ParseEnvID(id)
    IN  IF parsed.err # ""
        THEN /\ call' = [NoCall EXCEPT !.op = "Register", !.id = id,
                            !.ty = TypeOf(entryPoint), !.entryPoint = entryPoint,
                            !.options = options, !.err = parsed.err]
             /\ UNCHANGED <<specs, latest>>
        ELSE LET spec == ApplyOptions(NewEnvSpec(parsed, entryPoint), options)
             IN  /\ specs' = PutSpec(specs, spec.ID, spec)
                 /\ latest' = Latest(latest, spec.ID,
                        [id |-> id, entryPoint |-> entryPoint, options |-> options])
                 /\ call' = [NoCall EXCEPT !.op = "Register", !.id = id,
                                !.ty = TypeOf(entryPoint), !.entryPoint = entryPoint,
                                !.options = options, !.applied = Len(options)]

\* a configuration that is the spec's own Kwargs map
SameMap(kwargs) == [shared |-> TRUE, entries |-> kwargs]

\* gym.go:169-172, 207-215: config is a map of its own, made by make(), with
\* the entries of spec.Kwargs copied into it
NewMap(kwargs) == [shared |-> FALSE, entries |-> kwargs]

\* what the entry point leaves in the configuration map it was given: all
\* but "newEnv" write a key into it
FactoryWrites == [k \in {"k1"} |-> 0]
Written(entryPoint, config) ==
    IF entryPoint = "newEnv" THEN config ELSE MergeInto(config, FactoryWrites)

\* gym.go:169-181, 207-225: the registry after config has been merged and
\* given to the entry point of the spec under id
SpecsAfter(id, kwargs) ==
    LET spec == specs[id]
        config == NewMap(spec.Kwargs)
        left == Written(spec.EntryPoint, MergeAll(config.entries, kwargs))
    IN  IF config.shared THEN [specs EXCEPT ![id].Kwargs = left] ELSE specs

\* gym.go:169-186, shared by Make and MakeAny (gym.go:207-239): merge the
\* kwargs, call the entry point, wrap its error
Construct(c, spec) ==
    LET config == MergeAll(spec.Kwargs, c.overrides)
        made == Invoke(spec.EntryPoint, config)
        ran == [c EXCEPT !.invoked = <<[entryPoint |-> spec.EntryPoint,
                                        config |-> config]>>]
    IN  IF made.err # ""
        THEN [ran EXCEPT !.err = "failed to create environment"]
        ELSE [ran EXCEPT !.env = made.env]

\* gym.go:154-187
MakeNoTypeCheck(ty, id, kwargs) ==
    LET c == [NoCall EXCEPT !.op = "Make", !.id = id, !.ty = ty, !.overrides = kwargs]
    IN  /\ call' = IF id \notin DOMAIN specs
                   THEN [c EXCEPT !.err = "no registered environment"]
                   ELSE Construct(c, specs[id])
        /\ UNCHANGED <<specs, latest>>

Make(ty, id, kwargs) ==
    LET c == [NoCall EXCEPT !.op = "Make", !.id = id, !.ty = ty, !.overrides = kwargs]
    IN  /\ call' = IF id \notin DOMAIN specs
                   THEN [c EXCEPT !.err = "no registered environment"]
                   ELSE IF specs[id].ty # ty
                   THEN [c EXCEPT !.err = "incompatible types"]
                   ELSE Construct(c, specs[id])
        /\ specs' = IF id \in DOMAIN specs /\ specs[id].ty = ty
                    THEN SpecsAfter(id, kwargs) ELSE specs
        /\ UNCHANGED latest

\* gym.go:190-240
MakeAnyNoLookup(id, kwargs) ==
    LET c == [NoCall EXCEPT !.op = "MakeAny", !.id = id, !.overrides = kwargs]
    IN  /\ call' = IF id \notin DOMAIN specs
                   THEN IF specs = EmptyMap
                        THEN [c EXCEPT !.err = "no registered environment"]
                        ELSE Construct(c, specs[CHOOSE k \in DOMAIN specs : TRUE])
                   ELSE Construct(c, specs[id])
        /\ UNCHANGED <<specs, latest>>

MakeAny(id, kwargs) ==
    LET c == [NoCall EXCEPT !.op = "MakeAny", !.id = id, !.overrides = kwargs]
    IN  /\ call' = IF id \notin DOMAIN specs
                   THEN [c EXCEPT !.err = "no registered environment"]
                   ELSE Construct(c, specs[id])
        /\ specs' = IF id \in DOMAIN specs THEN SpecsAfter(id, kwargs) ELSE specs
        /\ UNCHANGED latest

\* gym.go:243-253
GetSpec(id) ==
    LET c == [NoCall EXCEPT !.op = "Spec", !.id = id]
    IN  /\ call' = IF id \notin DOMAIN specs
                   THEN [c EXCEPT !.err = "no registered environment"]
                   ELSE [c EXCEPT !.spec = Some(specs[id])]
        /\ UNCHANGED <<specs, latest>>

\* gym.go:256-265
ListRegistered ==
    /\ \E ids \in Orders(DOMAIN specs) :
        call' = [NoCall EXCEPT !.op = "ListRegistered", !.ids = ids]
    /\ UNCHANGED <<specs, latest>>

RegInit ==
    /\ specs = EmptyMap
    /\ latest = EmptyMap
    /\ call = NoCall

DoRegister ==
    /\ call.op = "none"
    /\ \E id \in RegIds, entryPoint \in EntryPoints, options \in OptionLists :
        Register(id, entryPoint, options)
    /\ UNCHANGED notRegVars

DoMake ==
    /\ call.op = "none"
    /\ \E ty \in TypePairs, id \in RegIds, kwargs \in OverrideLists : Make(ty, id, kwargs)
    /\ UNCHANGED notRegVars

DoMakeAny ==
    /\ call.op = "none"
    /\ \E id \in RegIds, kwargs \in OverrideLists : MakeAny(id, kwargs)
    /\ UNCHANGED notRegVars

DoSpec ==
    /\ call.op = "none"
    /\ \E id \in RegIds : GetSpec(id)
    /\ UNCHANGED notRegVars

DoListRegistered ==
    /\ call.op = "none"
    /\ ListRegistered
    /\ UNCHANGED notRegVars

\* the caller is done with what the last call returned
Return ==
    /\ call.op # "none"
    /\ call' = NoCall
    /\ UNCHANGED <<specs, latest>>
    /\ UNCHANGED notRegVars

(***************************************************************************)
(* The registry called from several goroutines.  Each goroutine is in a    *)
(* stack of calls: a factory runs inside Make / MakeAny, under the read    *)
(* lock taken at gym.go:155 / 191, and may call the registry itself.       *)
(* sync.RWMutex: Lock first excludes the other writers and new readers,    *)
(* then waits for the read locks held to be released; RLock waits while a  *)
(* writer holds or waits for the lock.                                     *)
(***************************************************************************)
\* the registry after Register("a-v1", newEnv, WithKwargs.., WithMaxEpisodeSteps(3))
OneOptions ==
    <<[fn |-> "WithKwargs", arg |-> KwB], [fn |-> "WithMaxEpisodeSteps", arg |-> 3]>>
OneId == <<"a", "-", "v", "1">>
OneSpec == ApplyOptions(NewEnvSpec(ParseEnvID(OneId), "newEnv"), OneOptions)

\* the number of goroutines calling the registry
NumGoroutines == 2

Goroutines == 1..NumGoroutines

\* the ids used: "a" is registered with a plain factory, also from inside
\* a factory; "n" is registered with the factories that call the registry
IdA == <<"a">>
IdN == <<"n">>
ConcIds == {IdA, IdN}
\* factories that call Register("a", newEnv), Make("a") and ListRegistered()
ReentrantEntryPoints == {"registering", "making", "listing"}
ConcEntryPoints(id) == IF id = IdN THEN ReentrantEntryPoints ELSE {"newEnv"}
ConcOptions == OneOptions

Frame(op, id, entryPoint) ==
    [op |-> op,
     pc |-> IF op = "Register" THEN "build" ELSE "rlock",
     id |-> id, entryPoint |-> entryPoint, spec |-> None, ids |-> <<>>, err |-> ""]

Top(t) == stack[t][Len(stack[t])]
InCall(t, ops, pc) == stack[t] # <<>> /\ Top(t).op \in ops /\ Top(t).pc = pc
SetTop(t, f) == [stack EXCEPT ![t] = [@ EXCEPT ![Len(@)] = f]]
Pop(t) == [stack EXCEPT ![t] = SubSeq(@, 1, Len(@) - 1)]
Push(st, t, f) == [st EXCEPT ![t] = Append(@, f)]

\* sync.RWMutex
WriterFree(m) == m.writer = 0
NoReadersIgnored(m) == TRUE
NoReaders(m) == \A t \in Goroutines : m.readers[t] = 0

ConcIdle ==
    /\ mu = [writer |-> 0, readers |-> [t \in Goroutines |-> 0]]
    /\ stack = [t \in Goroutines |-> <<>>]
    /\ begun = {}
    /\ done = {}

\* a goroutine calls Register, Make, MakeAny, Spec or ListRegistered
Call(t) ==
    /\ stack[t] = <<>>
    /\ \/ \E id \in ConcIds, entryPoint \in EntryPoints \cup ReentrantEntryPoints :
            /\ entryPoint \in ConcEntryPoints(id)
            /\ stack' = Push(stack, t, Frame("Register", id, entryPoint))
            /\ begun' = begun \cup {id}
       \/ \E op \in {"Make", "MakeAny", "Spec"}, id \in ConcIds :
            /\ stack' = Push(stack, t, Frame(op, id, ""))
            /\ UNCHANGED begun
       \/ /\ stack' = Push(stack, t, Frame("ListRegistered", <<>>, ""))
          /\ UNCHANGED begun
    /\ UNCHANGED <<mu, done, specs>>
    /\ UNCHANGED notConcVars

\* gym.go:98-117: parse the id, build the spec, apply the options
RegisterBuild(t) ==
    /\ InCall(t, {"Register"}, "build")
    /\ LET f == Top(t)
           parsed == ParseEnvID(f.id)
       IN  IF parsed.err # ""
           THEN stack' = Pop(t)
           ELSE stack' = SetTop(t, [f EXCEPT !.pc = "lock",
                    !.spec = Some(ApplyOptions(NewEnvSpec(parsed, f.entryPoint),
                                               ConcOptions))])
    /\ UNCHANGED <<mu, begun, done, specs>>
    /\ UNCHANGED notConcVars

\* gym.go:119, registry.mu.Lock(): exclude the other writers and new readers
RegisterLock(t) ==
    /\ InCall(t, {"Register"}, "lock")
    /\ WriterFree(mu)
    /\ mu' = [mu EXCEPT !.writer = t]
    /\ stack' = SetTop(t, [Top(t) EXCEPT !.pc = "locked"])
    /\ UNCHANGED <<begun, done, specs>>
    /\ UNCHANGED notConcVars

\* gym.go:119-122: Lock returns once no read lock is held, and the spec is
\* stored
RegisterStore(t) ==
    /\ InCall(t, {"Register"}, "locked")
    /\ NoReaders(mu)
    /\ specs' = PutSpec(specs, Top(t).spec[1].ID, Top(t).spec[1])
    /\ stack' = SetTop(t, [Top(t) EXCEPT !.pc = "unlock"])
    /\ UNCHANGED <<mu, begun, done>>
    /\ UNCHANGED notConcVars

\* gym.go:120, 123: the deferred Unlock, and the return of nil
RegisterUnlock(t) ==
    /\ InCall(t, {"Register"}, "unlock")
    /\ mu' = [mu EXCEPT !.writer = 0]
    /\ done' = done \cup {Top(t).id}
    /\ stack' = Pop(t)
    /\ UNCHANGED <<begun, specs>>
    /\ UNCHANGED notConcVars

ReadOps == {"Make", "MakeAny", "Spec", "ListRegistered"}

\* gym.go:155, 191, 244, 257: registry.mu.RLock()
ReadLock(t) ==
    /\ InCall(t, ReadOps, "rlock")
    /\ WriterFree(mu)
    /\ mu' = [mu EXCEPT !.readers[t] = @ + 1]
    /\ stack' = SetTop(t, [Top(t) EXCEPT !.pc = "read"])
    /\ UNCHANGED <<begun, done, specs>>
    /\ UNCHANGED notConcVars

\* gym.go:158-167, 194-205: look the id up
MakeLookup(t) ==
    /\ InCall(t, {"Make", "MakeAny"}, "read")
    /\ LET f == Top(t)
       IN  stack' = SetTop(t,
                IF f.id \notin DOMAIN specs
                THEN [f EXCEPT !.pc = "runlock", !.err = "no registered environment"]
                ELSE [f EXCEPT !.pc = "create", !.spec = Some(specs[f.id])])
    /\ UNCHANGED <<mu, begun, done, specs>>
    /\ UNCHANGED notConcVars

\* the registry call a factory makes, none for a plain one
FactoryCall(entryPoint) ==
    CASE entryPoint = "registering" -> <<Frame("Register", IdA, "newEnv")>>
      [] entryPoint = "making" -> <<Frame("Make", IdA, "")>>
      [] entryPoint = "listing" -> <<Frame("ListRegistered", <<>>, "")>>
      [] OTHER -> <<>>

\* gym.go:181, 225: call the entry point, the read lock still held
MakeCreate(t) ==
    /\ InCall(t, {"Make", "MakeAny"}, "create")
    /\ LET f == Top(t)
           inner == FactoryCall(f.spec[1].EntryPoint)
       IN  /\ stack' = [SetTop(t, [f EXCEPT !.pc = "runlock"]) EXCEPT ![t] = @ \o inner]
           /\ begun' = begun \cup
                {inner[i].id : i \in {j \in 1..Len(inner) : inner[j].op = "Register"}}
    /\ UNCHANGED <<mu, done, specs>>
    /\ UNCHANGED notConcVars

\* gym.go:247-252
SpecLookup(t) ==
    /\ InCall(t, {"Spec"}, "read")
    /\ LET f == Top(t)
       IN  stack' = SetTop(t,
                IF f.id \notin DOMAIN specs
                THEN [f EXCEPT !.pc = "runlock", !.err = "no registered environment"]
                ELSE [f EXCEPT !.pc = "runlock", !.spec = Some(specs[f.id])])
    /\ UNCHANGED <<mu, begun, done, specs>>
    /\ UNCHANGED notConcVars

\* gym.go:260-264
ListCollect(t) ==
    /\ InCall(t, {"ListRegistered"}, "read")
    /\ \E ids \in Orders(DOMAIN specs) :
        stack' = SetTop(t, [Top(t) EXCEPT !.pc = "runlock", !.ids = ids])
    /\ UNCHANGED <<mu, begun, done, specs>>
    /\ UNCHANGED notConcVars

\* gym.go:156, 192, 245, 258: the deferred RUnlock, and the return
ReadUnlock(t) ==
    /\ InCall(t, ReadOps, "runlock")
    /\ mu' = [mu EXCEPT !.readers[t] = @ - 1]
    /\ stack' = Pop(t)
    /\ UNCHANGED <<begun, done, specs>>
    /\ UNCHANGED notConcVars

IdleId == idCall = [op |-> "none", done |-> TRUE, id |-> <<>>, namespace |-> None,
                    name |-> <<>>, version |-> None, parsed |-> NoParse]

ConcInit ==
    /\ RegInit
    /\ IdleId
    /\ ConcIdle
    /\ RngIdle
    /\ SpaceIdle
    /\ EnvIdle

ConcNext ==
    \/ \E t \in Goroutines : Call(t)
    \/ \E t \in Goroutines : RegisterBuild(t)
    \/ \E t \in Goroutines : RegisterLock(t)
    \/ \E t \in Goroutines : RegisterStore(t)
    \/ \E t \in Goroutines : RegisterUnlock(t)
    \/ \E t \in Goroutines : ReadLock(t)
    \/ \E t \in Goroutines : MakeLookup(t)
    \/ \E t \in Goroutines : MakeCreate(t)
    \/ \E t \in Goroutines : SpecLookup(t)
    \/ \E t \in Goroutines : ListCollect(t)
    \/ \E t \in Goroutines : ReadUnlock(t)

SpecConc == ConcInit /\ [][ConcNext]_vars

(***************************************************************************)
(* ParseEnvID, GetEnvID and Register on every short string: each behaviour *)
(* is one call.                                                            *)
(***************************************************************************)
IdInit ==
    /\ call = NoCall
    /\ ConcIdle
    /\ RngIdle
    /\ SpaceIdle
    /\ EnvIdle
    /\ \/ /\ specs = EmptyMap
          /\ latest = EmptyMap
          /\ \/ \E s \in RawIds, op \in {"ParseEnvID", "Register"} :
                idCall = [op |-> op, done |-> FALSE, id |-> s, namespace |-> None,
                          name |-> <<>>, version |-> None, parsed |-> NoParse]
             \/ \E ns \in NamespaceInputs, nm \in NameInputs, ver \in VersionInputs :
                idCall = [op |-> "RoundTrip", done |-> FALSE, id |-> <<>>,
                          namespace |-> ns, name |-> nm, version |-> ver,
                          parsed |-> NoParse]
       \/ /\ specs = PutSpec(EmptyMap, OneSpec.ID, OneSpec)
          /\ latest = Latest(EmptyMap, OneSpec.ID,
                [id |-> OneId, entryPoint |-> "newEnv", options |-> OneOptions])
          /\ \E s \in RawIds :
                idCall = [op |-> "Register", done |-> FALSE, id |-> s, namespace |-> None,
                          name |-> <<>>, version |-> None, parsed |-> NoParse]

\* ParseEnvID(envID) on a raw string
DoParseEnvID ==
    /\ idCall.op = "ParseEnvID"
    /\ ~idCall.done
    /\ idCall' = [idCall EXCEPT !.done = TRUE, !.parsed = ParseEnvID(idCall.id)]
    /\ UNCHANGED <<regVars, concVars, rngVars, spaceVars, envVars>>

\* ParseEnvID(GetEnvID(namespace, name, version))
DoRoundTrip ==
    /\ idCall.op = "RoundTrip"
    /\ ~idCall.done
    /\ LET id == GetEnvID(idCall.namespace, idCall.name, idCall.version)
       IN  idCall' = [idCall EXCEPT !.done = TRUE, !.id = id, !.parsed = ParseEnvID(id)]
    /\ UNCHANGED <<regVars, concVars, rngVars, spaceVars, envVars>>

\* Register(id, ..) on a raw string
DoRegisterRaw ==
    /\ idCall.op = "Register"
    /\ ~idCall.done
    /\ idCall' = [idCall EXCEPT !.done = TRUE, !.parsed = ParseEnvID(idCall.id)]
    /\ \E options \in OptionLists : Register(idCall.id, "newEnv", options)
    /\ UNCHANGED <<concVars, rngVars, spaceVars, envVars>>

IdNext == DoParseEnvID \/ DoRoundTrip \/ DoRegisterRaw

SpecId == IdInit /\ [][IdNext]_vars

Init == RegInit /\ IdleId /\ ConcIdle /\ RngIdle /\ SpaceIdle /\ EnvIdle

Next == DoRegister \/ DoMake \/ DoMakeAny \/ DoSpec \/ DoListRegistered \/ Return

Spec == Init /\ [][Next]_vars

(***************************************************************************)
(* One RNG used by several goroutines.  A call is a sequence of steps:     *)
(* Lock (announce, then wait for the readers), the reads and writes of the *)
(* generator under the lock, the deferred Unlock.  The operations that     *)
(* draw (Int63 .. ExpFloat64, IntN, Int64N, Perm) have one shape, "Draw".  *)
(***************************************************************************)
\* the arguments of the concurrent calls
ConcSeeds == {0 - 1, 1, MaxSeed}
ConcSizes == {0 - 1, 2}
SwapFuncs == {"swaps", "panics"}

\* a goroutine outside any call on the RNG
RngGoIdle == [op |-> "none", pc |-> "idle", eff |-> 0, local |-> 0, swap |-> "", left |-> 0]
\* a goroutine whose call of op panicked
RngGoPanicked(op) == [RngGoIdle EXCEPT !.pc = "panicked", !.op = op]
RngFrame(op, left, eff, swap) ==
    [RngGoIdle EXCEPT !.op = op, !.pc = IF op = "GetSeed" THEN "rlock" ELSE "lock",
                      !.left = left, !.eff = eff, !.swap = swap]

RngConcIdle ==
    /\ rng = Some(RngOf(1))
    /\ rcall = NoRngCall
    /\ rmu = [writer |-> 0, readers |-> [t \in Goroutines |-> 0]]
    /\ gor = [t \in Goroutines |-> RngGoIdle]

\* a goroutine calls an operation whose argument is valid: nothing is
\* shared yet (rand.go:83-90, 141-143, 193-195, 204-206)
RngCall(t) ==
    /\ gor[t].pc = "idle"
    /\ \/ \E op \in PlainOps : gor' = [gor EXCEPT ![t] = RngFrame("Draw", 1, 0, "")]
       \/ \E op \in BoundedOps \cup {"Perm"}, n \in ConcSizes :
            /\ ~ArgumentPanics(op, n)
            /\ gor' = [gor EXCEPT ![t] = RngFrame("Draw", IF op = "Perm" THEN n - 1 ELSE 1, 0, "")]
       \/ \E n \in ConcSizes, swap \in SwapFuncs :
            /\ ~ArgumentPanics("Shuffle", n)
            /\ gor' = [gor EXCEPT ![t] = RngFrame("Shuffle", n - 1, 0, swap)]
       \/ \E seed \in ConcSeeds :
            /\ seed >= 0
            /\ \E effectiveSeed \in EffectiveSeeds(seed) :
                gor' = [gor EXCEPT ![t] = RngFrame("Seed", 0, effectiveSeed, "")]
       \/ gor' = [gor EXCEPT ![t] = RngFrame("GetSeed", 0, 0, "")]
    /\ UNCHANGED <<rng, rcall, rmu>>
    /\ UNCHANGED notRngVars

\* a goroutine calls an operation whose argument is invalid: IntN, Int64N,
\* Perm and Shuffle panic, Seed returns an error, none has locked
RngReject(t) ==
    /\ gor[t].pc = "idle"
    /\ \/ \E op \in BoundedOps \cup CountedOps, n \in ConcSizes :
            /\ ArgumentPanics(op, n)
            /\ gor' = [gor EXCEPT ![t] = RngGoPanicked(op)]
       \/ /\ \E seed \in ConcSeeds : seed < 0
          /\ gor' = gor
    /\ UNCHANGED <<rng, rcall, rmu>>
    /\ UNCHANGED notRngVars

\* r.mu.Lock(), first half: the writer excludes the other writers and the
\* readers that come after it
RngLock(t) ==
    /\ gor[t].pc = "lock"
    /\ WriterFree(rmu)
    /\ rmu' = [rmu EXCEPT !.writer = t]
    /\ gor' = [gor EXCEPT ![t].pc = "locked"]
    /\ UNCHANGED <<rng, rcall>>
    /\ UNCHANGED notRngVars

\* r.mu.Lock(), second half: the writer has waited for the readers
RngLocked(t) ==
    /\ gor[t].pc = "locked"
    /\ NoReaders(rmu)
    /\ gor' = [gor EXCEPT ![t].pc = IF gor[t].op = "Seed" THEN "write"
                                    ELSE IF gor[t].left <= 0 THEN "unlock" ELSE "read"]
    /\ UNCHANGED <<rng, rcall, rmu>>
    /\ UNCHANGED notRngVars

\* a draw reads the generator's state
RngRead(t) ==
    /\ gor[t].pc = "read"
    /\ gor' = [gor EXCEPT ![t].pc = "write", ![t].local = rng[1].state]
    /\ UNCHANGED <<rng, rcall, rmu>>
    /\ UNCHANGED notRngVars

\* a draw writes the generator's next state; Seed replaces r.rng and r.seed
RngWrite(t) ==
    /\ gor[t].pc = "write"
    /\ IF gor[t].op = "Seed"
       THEN /\ rng' = Some(RngOf(gor[t].eff))
            /\ gor' = [gor EXCEPT ![t].pc = "unlock"]
       ELSE /\ rng' = Some([rng[1] EXCEPT !.state = PcgNext(gor[t].local)])
            /\ gor' = [gor EXCEPT ![t].left = @ - 1, ![t].local = 0,
                                  ![t].pc = IF gor[t].op = "Shuffle" THEN "swap"
                                            ELSE IF gor[t].left <= 1 THEN "unlock" ELSE "read"]
    /\ UNCHANGED <<rcall, rmu>>
    /\ UNCHANGED notRngVars

\* Shuffle calls swap(i, j) and leaves the lock where a panic finds it
RngSwapNoDefer(t) ==
    /\ gor[t].pc = "swap"
    /\ gor' = [gor EXCEPT ![t] = IF gor[t].swap = "panics" THEN RngGoPanicked("swap")
                                  ELSE [@ EXCEPT !.pc = IF @.left <= 0 THEN "unlock" ELSE "read"]]
    /\ UNCHANGED <<rng, rcall, rmu>>
    /\ UNCHANGED notRngVars

\* Shuffle calls swap(i, j): a panic of swap runs the deferred Unlock
RngSwap(t) ==
    /\ gor[t].pc = "swap"
    /\ gor' = [gor EXCEPT ![t].pc = IF gor[t].swap = "panics" \/ gor[t].left <= 0
                                    THEN "unlock" ELSE "read"]
    /\ UNCHANGED <<rng, rcall, rmu>>
    /\ UNCHANGED notRngVars

\* defer r.mu.Unlock(): the call returns, or the panic goes on to the caller
RngUnlock(t) ==
    /\ gor[t].pc = "unlock"
    /\ rmu' = [rmu EXCEPT !.writer = 0]
    /\ gor' = [gor EXCEPT ![t] = IF gor[t].op = "Shuffle" /\ gor[t].swap = "panics"
                                  THEN RngGoPanicked("swap") ELSE RngGoIdle]
    /\ UNCHANGED <<rng, rcall>>
    /\ UNCHANGED notRngVars

\* r.mu.RLock() of GetSeed
RngRLock(t) ==
    /\ gor[t].pc = "rlock"
    /\ WriterFree(rmu)
    /\ rmu' = [rmu EXCEPT !.readers[t] = @ + 1]
    /\ gor' = [gor EXCEPT ![t].pc = "rread"]
    /\ UNCHANGED <<rng, rcall>>
    /\ UNCHANGED notRngVars

\* return r.seed
RngGetSeed(t) ==
    /\ gor[t].pc = "rread"
    /\ gor' = [gor EXCEPT ![t].pc = "runlock", ![t].local = rng[1].seed]
    /\ UNCHANGED <<rng, rcall, rmu>>
    /\ UNCHANGED notRngVars

\* defer r.mu.RUnlock()
RngRUnlock(t) ==
    /\ gor[t].pc = "runlock"
    /\ rmu' = [rmu EXCEPT !.readers[t] = @ - 1]
    /\ gor' = [gor EXCEPT ![t] = RngGoIdle]
    /\ UNCHANGED <<rng, rcall>>
    /\ UNCHANGED notRngVars

\* the caller recovers from the panic
RngRecover(t) ==
    /\ gor[t].pc = "panicked"
    /\ gor' = [gor EXCEPT ![t] = RngGoIdle]
    /\ UNCHANGED <<rng, rcall, rmu>>
    /\ UNCHANGED notRngVars

RngConcInit == RegInit /\ IdleId /\ ConcIdle /\ RngConcIdle /\ SpaceIdle /\ EnvIdle

RngConcNext ==
    \/ \E t \in Goroutines : RngCall(t)
    \/ \E t \in Goroutines : RngReject(t)
    \/ \E t \in Goroutines : RngLock(t)
    \/ \E t \in Goroutines : RngLocked(t)
    \/ \E t \in Goroutines : RngRead(t)
    \/ \E t \in Goroutines : RngWrite(t)
    \/ \E t \in Goroutines : RngSwap(t)
    \/ \E t \in Goroutines : RngUnlock(t)
    \/ \E t \in Goroutines : RngRLock(t)
    \/ \E t \in Goroutines : RngGetSeed(t)
    \/ \E t \in Goroutines : RngRUnlock(t)
    \/ \E t \in Goroutines : RngRecover(t)

SpecRngConc == RngConcInit /\ [][RngConcNext]_vars

RngInit == RegInit /\ IdleId /\ ConcIdle /\ RngIdle /\ SpaceIdle /\ EnvIdle

RngNext == DoNewRNG \/ DoSeed \/ DoGetSeed \/ DoSample \/ DoShuffle \/ RngReturn

SpecRng == RngInit /\ [][RngNext]_vars

(***************************************************************************)
(* Numbers.  An int keeps its width: the model's ints are MinInt..MaxInt   *)
(* and arithmetic wraps.  A float64 is a finite value, an infinity or NaN: *)
(* the model's finite floats are the integers -MaxFloat..MaxFloat, a       *)
(* result beyond them is an infinity, and NaN compares false with all.     *)
(***************************************************************************)
\* math.MaxInt64 and math.MaxFloat64, small
MaxInt == 7
MaxFloat == 4

MinInt == 0 - MaxInt - 1
Ints == MinInt..MaxInt
\* the int that an exact result x is stored as
WrapInt(x) == ((x - MinInt) % (2 * (MaxInt + 1))) + MinInt

PosInf == MaxFloat + 1
NegInf == 0 - MaxFloat - 1
NaN == MaxFloat + 2
Floats == NegInf..NaN
IsNaN(a) == a = NaN
IsInf(a) == a = PosInf \/ a = NegInf
IsFinite(a) == ~IsNaN(a) /\ ~IsInf(a)
\* a < b, a > b, a <= b and a == b of float64
FLess(a, b) == ~IsNaN(a) /\ ~IsNaN(b) /\ a < b
FGreater(a, b) == FLess(b, a)
FLeq(a, b) == ~IsNaN(a) /\ ~IsNaN(b) /\ a <= b
FEq(a, b) == ~IsNaN(a) /\ ~IsNaN(b) /\ a = b
\* the float64 that an exact result x is rounded to
FRound(x) == IF x > MaxFloat THEN PosInf ELSE IF x < 0 - MaxFloat THEN NegInf ELSE x
FNeg(a) == IF IsNaN(a) THEN NaN ELSE 0 - a
FAdd(a, b) ==
    IF IsNaN(a) \/ IsNaN(b) \/ (IsInf(a) /\ IsInf(b) /\ a # b) THEN NaN
    ELSE IF IsInf(a) THEN a
    ELSE IF IsInf(b) THEN b
    ELSE FRound(a + b)
FSub(a, b) == FAdd(a, FNeg(b))
\* u * d for u = k / PcgModulus, a value of Float64() in [0, 1): the nearest
\* float, 0 * infinity being NaN
FMulUnit(k, d) ==
    IF IsNaN(d) THEN NaN
    ELSE IF IsInf(d) THEN (IF k = 0 THEN NaN ELSE d)
    ELSE (2 * k * d + PcgModulus) \div (2 * PcgModulus)
\* a * b of two floats
FMul(a, b) ==
    IF IsNaN(a) \/ IsNaN(b) \/ (IsInf(a) /\ b = 0) \/ (a = 0 /\ IsInf(b)) THEN NaN
    ELSE IF IsInf(a) \/ IsInf(b)
    THEN (IF (a < 0) = (b < 0) THEN PosInf ELSE NegInf)
    ELSE FRound(a * b)

\* the values of the generator's floating-point operations, from the draw:
\* Float64 in [0, 1) as the numerator over PcgModulus, ExpFloat64 in
\* (0, MaxFloat64], NormFloat64 in [-MaxFloat64, MaxFloat64]
Float64Of(value) == value % PcgModulus
ExpFloat64Of(value) == 1 + (value % MaxFloat)
NormFloat64Of(value) == (value % (2 * MaxFloat + 1)) - MaxFloat

(***************************************************************************)
(* The Spaces (space/discrete.go, space/box.go).  A Space holds the        *)
(* address of its RNG.                                                     *)
(***************************************************************************)
\* rand.GetDefaultRNG(): the singleton, made by NewRNG(0) at the first call;
\* r is the address returned, heap and default the heap and defaultRNG after
DefaultRNGs(heap, default) ==
    IF default # 0
    THEN {[r |-> default, heap |-> heap, default |-> default]}
    ELSE {[r |-> Len(heap) + 1, heap |-> Append(heap, RngOf(effectiveSeed)),
           default |-> Len(heap) + 1] : effectiveSeed \in EffectiveSeeds(0)}

\* discrete.go:34-51
NewDiscrete(n, start, r) ==
    IF n <= 0
    THEN [err |-> "n (counts) have to be positive", space |-> None]
    ELSE [err |-> "", space |-> Some([kind |-> "Discrete", n |-> n, start |-> start, rng |-> r])]

\* discrete.go:72-73: d.rng.Int64N(d.n), int(d.start + sample)
DiscreteSample(d, r) ==
    LET s == Sampled(r, "Int64N", d.n)
    IN  [rng |-> s.rng, value |-> WrapInt(d.start + s.value[1])]

\* discrete.go:95-97
DiscreteContains(d, x) == x >= d.start /\ x < WrapInt(d.start + d.n)

RECURSIVE Product(_)
\* box.go:58-61: size := 1; for _, dim := range boxShape { size *= dim }
Product(dims) == IF dims = <<>> THEN 1 ELSE dims[1] * Product(Tail(dims))

\* make([]float64, size) filled with l
Filled(size, l) == [i \in 1..size |-> l]

\* box.go:52-76: the vector and the shape that low resolves to
ParseLow(low, shape) ==
    CASE low.type = "float64" ->
            IF shape = <<>>
            THEN [err |-> "shape must be provided when low is scalar", panics |-> FALSE,
                  vec |-> <<>>, shape |-> <<>>]
            ELSE IF Product(shape[1]) < 0
            THEN [err |-> "", panics |-> TRUE, vec |-> <<>>, shape |-> <<>>]
            ELSE [err |-> "", panics |-> FALSE, vec |-> Filled(Product(shape[1]), low.v[1]),
                  shape |-> shape[1]]
      [] low.type = "[]float64" ->
            [err |-> "", panics |-> FALSE, vec |-> low.v,
             shape |-> IF shape = <<>> THEN <<Len(low.v)>> ELSE shape[1]]
      [] OTHER ->
            [err |-> "low must be float64 or []float64", panics |-> FALSE, vec |-> <<>>,
             shape |-> <<>>]

\* box.go:79-96: the vector that high resolves to
ParseHigh(high, lowVec) ==
    CASE high.type = "float64" ->
            IF Len(lowVec) = 0
            THEN [err |-> "cannot determine size from high when low is not provided", vec |-> <<>>]
            ELSE [err |-> "", vec |-> Filled(Len(lowVec), high.v[1])]
      [] high.type = "[]float64" ->
            IF Len(lowVec) # Len(high.v)
            THEN [err |-> "low and high must have same length", vec |-> <<>>]
            ELSE [err |-> "", vec |-> high.v]
      [] OTHER -> [err |-> "high must be float64 or []float64", vec |-> <<>>]

NoBox(err, panics) == [err |-> err, panics |-> panics, space |-> None]

\* box.go:47-123
NewBox(low, high, shape, r) ==
    LET l == ParseLow(low, shape)
        h == ParseHigh(high, l.vec)
    IN  IF l.err # "" \/ l.panics THEN NoBox(l.err, l.panics)
        ELSE IF h.err # "" THEN NoBox(h.err, FALSE)
        ELSE IF \E i \in 1..Len(l.vec) : FGreater(l.vec[i], h.vec[i])
        THEN NoBox("low must be <= high", FALSE)
        ELSE [err |-> "", panics |-> FALSE,
              space |-> Some([kind |-> "Box", low |-> l.vec, high |-> h.vec, shape |-> l.shape,
                              boundedBelow |-> [i \in 1..Len(l.vec) |-> l.vec[i] # NegInf],
                              boundedAbove |-> [i \in 1..Len(l.vec) |-> h.vec[i] # PosInf],
                              rng |-> r])]

\* box.go:150-168: coordinate i of a sample, and the generator afterwards
BoxCoordinate(b, r, i) ==
    LET d == Draw(r)
    IN  [rng |-> d.rng,
         value |->
            CASE ~b.boundedBelow[i] /\ ~b.boundedAbove[i] -> NormFloat64Of(d.value)
              [] b.boundedBelow[i] /\ ~b.boundedAbove[i] ->
                    FAdd(ExpFloat64Of(d.value), b.low[i])
              [] ~b.boundedBelow[i] /\ b.boundedAbove[i] ->
                    FSub(b.high[i], ExpFloat64Of(d.value))
              [] OTHER ->
                    FAdd(b.low[i], FMulUnit(Float64Of(d.value), FSub(b.high[i], b.low[i])))]

RECURSIVE BoxSampleFrom(_, _, _, _)
\* box.go:149-169: the coordinates from i on, after those in sample
BoxSampleFrom(b, r, i, sample) ==
    IF i > Len(b.low) THEN [rng |-> r, value |-> sample]
    ELSE LET c == BoxCoordinate(b, r, i)
         IN  BoxSampleFrom(b, c.rng, i + 1, Append(sample, c.value))

\* box.go:147-171
BoxSample(b, r) == BoxSampleFrom(b, r, 1, <<>>)

\* box.go:193-204
BoxContains(b, x) ==
    /\ Len(x) = Len(b.low)
    /\ \A i \in 1..Len(x) : ~(FLess(x[i], b.low[i]) \/ FGreater(x[i], b.high[i]))

\* Sample and Contains of either Space
SpaceSample(sp, r) == IF sp.kind = "Discrete" THEN DiscreteSample(sp, r) ELSE BoxSample(sp, r)
SpaceContains(sp, x) == IF sp.kind = "Discrete" THEN DiscreteContains(sp, x) ELSE BoxContains(sp, x)

\* the Spaces made in one run, and the samples followed after a Seed
NumSpaces == 2
MaxDrawn == 2

\* the arguments of NewDiscrete: every n and start, and a few
DiscreteArgs == ((0 - 1)..MaxN) \X Ints
SomeDiscreteArgs == {<<2, 0>>, <<MaxN, 0 - 1>>}

\* the arguments of NewBox: low and high a float64, a []float64 or of
\* another type, with or without a shape
FloatInputs == {NegInf, 0 - MaxFloat, 0, 1, MaxFloat, PosInf, NaN}
Scalar(x) == [type |-> "float64", v |-> <<x>>]
Vector(v) == [type |-> "[]float64", v |-> v]
BoxBounds ==
    {Scalar(x) : x \in FloatInputs}
        \cup {Vector(<<>>), [type |-> "string", v |-> <<>>]}
        \cup {Vector(<<x>>) : x \in FloatInputs}
        \cup {Vector(<<x, y>>) : x, y \in {NegInf, 0, 1, PosInf}}
Shapes == {<<>>, << <<>> >>, << <<2>> >>, << <<0>> >>, << <<0 - 1>> >>}
BoxArgs == BoxBounds \X BoxBounds \X Shapes
SomeBoxArgs == {<<Vector(<<0>>), Vector(<<1>>), <<>>>>,
                <<Scalar(NegInf), Vector(<<PosInf, 1>>), << <<2>> >>>>}

\* the vectors Contains is asked about
SomeVectors ==
    {<<>>} \cup {<<x>> : x \in Floats} \cup {<<x, y>> : x, y \in {NegInf, 0, 1, PosInf, NaN}}

NoTrail == [space |-> 0, seed |-> 0, count |-> 0]

\* NewDiscrete(n, start): at most limit Spaces, the arguments from args
DoNewDiscrete(limit, args) ==
    /\ scall.op = "none"
    /\ Len(spaces) < limit
    /\ \E a \in args, g \in DefaultRNGs(rngs, defaultRNG) :
        LET made == NewDiscrete(a[1], a[2], g.r)
        IN  /\ scall' = [NoSpaceCall EXCEPT !.op = "NewDiscrete", !.args = a,
                            !.err = made.err,
                            !.space = IF made.space = None THEN 0 ELSE Len(spaces) + 1]
            /\ IF made.space = None
               THEN UNCHANGED <<rngs, defaultRNG, spaces, trail>>
               ELSE /\ rngs' = g.heap
                    /\ defaultRNG' = g.default
                    /\ spaces' = Append(spaces, made.space[1])
                    /\ UNCHANGED trail
    /\ UNCHANGED envVars
    /\ UNCHANGED notSpaceVars

\* NewBox(low, high, shape...)
DoNewBox(limit, args) ==
    /\ scall.op = "none"
    /\ Len(spaces) < limit
    /\ \E a \in args, g \in DefaultRNGs(rngs, defaultRNG) :
        LET made == NewBox(a[1], a[2], a[3], g.r)
        IN  /\ scall' = [NoSpaceCall EXCEPT !.op = "NewBox", !.args = a,
                            !.err = made.err, !.panics = made.panics,
                            !.space = IF made.space = None THEN 0 ELSE Len(spaces) + 1]
            /\ IF made.space = None
               THEN UNCHANGED <<rngs, defaultRNG, spaces, trail>>
               ELSE /\ rngs' = g.heap
                    /\ defaultRNG' = g.default
                    /\ spaces' = Append(spaces, made.space[1])
                    /\ UNCHANGED trail
    /\ UNCHANGED envVars
    /\ UNCHANGED notSpaceVars

\* discrete.go:84-86, box.go:182-184: Seed(seed) is rng.Seed(seed)
DoSpaceSeed ==
    /\ scall.op = "none"
    /\ \E a \in 1..Len(spaces), seed \in Seeds :
        IF seed < 0
        THEN /\ scall' = [NoSpaceCall EXCEPT !.op = "Seed", !.space = a, !.args = <<seed>>,
                            !.ret = <<0>>, !.err = "seed must be non-negative"]
             /\ UNCHANGED <<rngs, trail>>
        ELSE \E effectiveSeed \in EffectiveSeeds(seed) :
             /\ rngs' = [rngs EXCEPT ![spaces[a].rng] = RngOf(effectiveSeed)]
             /\ \/ /\ seed > 0
                   /\ trail' = [space |-> a, seed |-> seed, count |-> 0]
                \/ trail' = IF trail.space = a THEN NoTrail ELSE trail
             /\ scall' = [NoSpaceCall EXCEPT !.op = "Seed", !.space = a, !.args = <<seed>>,
                            !.ret = <<effectiveSeed>>]
    /\ UNCHANGED <<defaultRNG, spaces>>
    /\ UNCHANGED envVars
    /\ UNCHANGED notSpaceVars

\* discrete.go:65-74, box.go:142-172: Sample(mask, probability)
DoSpaceSample ==
    /\ scall.op = "none"
    /\ \E a \in 1..Len(spaces), masked \in BOOLEAN :
        IF masked
        THEN /\ scall' = [NoSpaceCall EXCEPT !.op = "Sample", !.space = a, !.args = <<masked>>,
                            !.err = "mask and probability sampling not yet implemented"]
             /\ UNCHANGED <<rngs, trail>>
        ELSE LET s == SpaceSample(spaces[a], rngs[spaces[a].rng])
             IN  /\ rngs' = [rngs EXCEPT ![spaces[a].rng] = s.rng]
                 /\ trail' = IF trail.space # a THEN trail
                              ELSE IF trail.count >= MaxDrawn THEN NoTrail
                              ELSE [trail EXCEPT !.count = @ + 1]
                 /\ scall' = [NoSpaceCall EXCEPT !.op = "Sample", !.space = a,
                                !.args = <<masked>>, !.ret = <<s.value>>]
    /\ UNCHANGED <<defaultRNG, spaces>>
    /\ UNCHANGED envVars
    /\ UNCHANGED notSpaceVars

\* discrete.go:95-97, box.go:193-204
DoSpaceContains ==
    /\ scall.op = "none"
    /\ \E a \in 1..Len(spaces) :
        \E x \in IF spaces[a].kind = "Discrete" THEN Ints ELSE SomeVectors :
            scall' = [NoSpaceCall EXCEPT !.op = "Contains", !.space = a, !.args = <<x>>,
                        !.ret = <<SpaceContains(spaces[a], x)>>]
    /\ UNCHANGED <<rngs, defaultRNG, spaces, trail>>
    /\ UNCHANGED envVars
    /\ UNCHANGED notSpaceVars

\* the caller is done with what the last call returned
SpaceReturn ==
    /\ scall.op # "none"
    /\ scall' = NoSpaceCall
    /\ UNCHANGED <<rngs, defaultRNG, spaces, trail>>
    /\ UNCHANGED envVars
    /\ UNCHANGED notSpaceVars

SpaceInit == RegInit /\ IdleId /\ ConcIdle /\ RngIdle /\ SpaceIdle /\ EnvIdle

\* one Space, of every argument
SpaceNext ==
    \/ DoNewDiscrete(1, DiscreteArgs)
    \/ DoNewBox(1, BoxArgs)
    \/ DoSpaceSeed
    \/ DoSpaceSample
    \/ DoSpaceContains
    \/ SpaceReturn

SpecSpace == SpaceInit /\ [][SpaceNext]_vars

\* several Spaces
SpacesNext ==
    \/ DoNewDiscrete(NumSpaces, SomeDiscreteArgs)
    \/ DoNewBox(NumSpaces, SomeBoxArgs)
    \/ DoSpaceSeed
    \/ DoSpaceSample
    \/ SpaceReturn

SpecSpaces == SpaceInit /\ [][SpacesNext]_vars

(***************************************************************************)
(* ToJSONable and FromJSONable.  A value of type any keeps its dynamic     *)
(* type, which FromJSONable switches on.                                   *)
(***************************************************************************)
AnyOf(type, v) == [type |-> type, v |-> v]

\* discrete.go:133-139
DiscreteToJSONable(samples) == [i \in 1..Len(samples) |-> AnyOf("int", samples[i])]

\* discrete.go:152-161: one element, as a sequence of its value or of nothing
DiscreteFromAny(val) ==
    CASE val.type = "int" -> <<val.v>>
      [] val.type = "float64" -> <<WrapInt(val.v)>>
      [] val.type = "int64" -> <<val.v>>
      [] OTHER -> <<>>

\* discrete.go:149-164
DiscreteFromJSONable(json) ==
    IF \E i \in 1..Len(json) : DiscreteFromAny(json[i]) = <<>>
    THEN [err |-> "expected int-like value", samples |-> None]
    ELSE [err |-> "", samples |-> Some([i \in 1..Len(json) |-> DiscreteFromAny(json[i])[1]])]

\* box.go:240-246
BoxToJSONable(samples) == [i \in 1..Len(samples) |-> AnyOf("[]float64", samples[i])]

BoxFromAnyNoSlice(val) ==
    CASE val.type = "[]interface{}" ->
            IF \E j \in 1..Len(val.v) : val.v[j].type \notin {"float64", "int"}
            THEN <<>>
            ELSE << [j \in 1..Len(val.v) |-> val.v[j].v] >>
      [] OTHER -> <<>>

\* box.go:259-277: one element, as a sequence of its value or of nothing
BoxFromAny(val) ==
    CASE val.type = "[]float64" -> <<val.v>>
      [] val.type = "[]interface{}" ->
            IF \E j \in 1..Len(val.v) : val.v[j].type \notin {"float64", "int"}
            THEN <<>>
            ELSE << [j \in 1..Len(val.v) |-> val.v[j].v] >>
      [] OTHER -> <<>>

\* box.go:256-280
BoxFromJSONable(json) ==
    IF \E i \in 1..Len(json) : BoxFromAny(json[i]) = <<>>
    THEN [err |-> "expected []float64 or []interface{}", samples |-> None]
    ELSE [err |-> "", samples |-> Some([i \in 1..Len(json) |-> BoxFromAny(json[i])[1]])]

SpaceToJSONable(sp, samples) ==
    IF sp.kind = "Discrete" THEN DiscreteToJSONable(samples) ELSE BoxToJSONable(samples)
SpaceFromJSONable(sp, json) ==
    IF sp.kind = "Discrete" THEN DiscreteFromJSONable(json) ELSE BoxFromJSONable(json)

\* the longest batch of samples given to ToJSONable
MaxBatch == 2

\* the values given to ToJSONable as samples of the Space sp
SampleInputs(sp) ==
    IF sp.kind = "Discrete" THEN Ints
    ELSE {x \in SomeVectors : Len(x) = Len(sp.low)}

\* FromJSONable(ToJSONable(samples))
DoJSONRoundTrip ==
    /\ scall.op = "none"
    /\ \E a \in 1..Len(spaces) :
        \E samples \in SeqsUpTo(SampleInputs(spaces[a]), MaxBatch) :
            LET back == SpaceFromJSONable(spaces[a], SpaceToJSONable(spaces[a], samples))
            IN  scall' = [NoSpaceCall EXCEPT !.op = "RoundTrip", !.space = a,
                            !.args = <<samples>>, !.ret = back.samples, !.err = back.err]
    /\ UNCHANGED <<rngs, defaultRNG, spaces, trail>>
    /\ UNCHANGED envVars
    /\ UNCHANGED notSpaceVars

\* one Space and batches of its samples
JSONNext ==
    \/ DoNewDiscrete(1, SomeDiscreteArgs)
    \/ DoNewBox(1, SomeBoxArgs)
    \/ DoJSONRoundTrip
    \/ SpaceReturn

SpecJSON == SpaceInit /\ [][JSONNext]_vars

(***************************************************************************)
(* The CartPole environment (envs/classic/cartpole.go).  Positions,        *)
(* angles, velocities and forces are floats of the model, in units where   *)
(* one Step is one unit of time (tau), the cart has one unit of mass and   *)
(* the pole's mass is below one unit, and angles are small: sin(theta) is  *)
(* theta and cos(theta) is 1.                                              *)
(***************************************************************************)
\* cartpole.go:121-131: gravity, forceMag, xThreshold, thetaThresholdRadians
Gravity == 1
ForceMag == 3
XThreshold == 2
ThetaThresholdRadians == 1
\* cartpole.go:321: the default bounds of Reset, -0.05 and 0.05
DefaultHigh == 1
DefaultLow == 0 - DefaultHigh

\* math.Sin and math.Cos: NaN of an infinity and of NaN
Sin(theta) == IF IsFinite(theta) THEN theta ELSE NaN
Cos(theta) == IF IsFinite(theta) THEN 1 ELSE NaN

\* the configurations: nil, or SuttonBartoReward and RenderMode
SomeConfigs == {None, Some([SuttonBartoReward |-> TRUE, RenderMode |-> "rgb_array"])}

\* cartpole.go:114-215: the environment of a configuration, with its RNG and
\* its Spaces at the addresses given
CartPoleEnvOf(config, r, actionSpace, observationSpace) ==
    LET c == IF config = None THEN [SuttonBartoReward |-> FALSE, RenderMode |-> ""]
             ELSE config[1]
    IN  [state |-> None, rng |-> r, suttonBartoReward |-> c.SuttonBartoReward,
         renderMode |-> c.RenderMode, stepsBeyondTerminated |-> None,
         actionSpace |-> actionSpace, observationSpace |-> observationSpace,
         screen |-> FALSE]

\* cartpole.go:195-206: the bounds of the observation space
ObservationHigh ==
    <<FMul(XThreshold, 2), PosInf, FMul(ThetaThresholdRadians, 2), PosInf>>
ObservationLow ==
    <<FMul(FNeg(XThreshold), 2), NegInf, FMul(FNeg(ThetaThresholdRadians), 2), NegInf>>

\* an episode that no Step has been made in
\* what is remembered of an environment: whether a Step of the episode has
\* reported terminated or truncated, the Steps and warnings after that, the
\* Steps of the episode, the step limit of the spec it was made from and
\* whether Close was the last call on it
NoEpisode == [reported |-> FALSE, beyond |-> 0, warnings |-> 0, truncated |-> FALSE,
              steps |-> 0, maxSteps |-> None, closed |-> FALSE]

\* an environment that draws from the RNG of its Spaces
EnvRNGShared(own, default) == default

\* cartpole.go:181-185: env.rng is the RNG that rand.NewRNG(0) has just made,
\* not the default RNG the Spaces are made with (discrete.go:45, box.go:117)
EnvRNG(own, default) == own

\* cartpole.go:114-215: the environment is made with an RNG of its own
\* (rand.NewRNG(0)) and its two Spaces; maxSteps is the step limit of the
\* spec it is made from, if it is made from one
NewCartPoleEnv(config, maxSteps) ==
    \E effectiveSeed \in EffectiveSeeds(0) :
        \E g \in DefaultRNGs(Append(rngs, RngOf(effectiveSeed)), defaultRNG) :
            LET action == NewDiscrete(2, 0, g.r)
                observation == NewBox(Vector(ObservationLow), Vector(ObservationHigh), <<>>, g.r)
            IN  /\ rngs' = g.heap
                /\ defaultRNG' = g.default
                /\ spaces' = spaces \o <<action.space[1], observation.space[1]>>
                /\ envs' = Append(envs, CartPoleEnvOf(config, EnvRNG(Len(rngs) + 1, g.r),
                                                      Len(spaces) + 1, Len(spaces) + 2))
                /\ episodes' = Append(episodes, [NoEpisode EXCEPT !.maxSteps = maxSteps])
                /\ ecall' = [NoEnvCall EXCEPT !.op = "NewCartPoleEnv", !.env = Len(envs) + 1]

\* NewCartPoleEnv(config): at most limit environments, the configuration
\* from configs
DoNewCartPoleEnv(limit, configs) ==
    /\ ecall.op = "none"
    /\ Len(envs) < limit
    /\ \E config \in configs : NewCartPoleEnv(config, None)
    /\ UNCHANGED <<trail, scall, memo>>
    /\ UNCHANGED notSpaceVars

\* cartpole.go:239-242
Force(action) == IF action = 0 THEN FNeg(ForceMag) ELSE ForceMag

\* cartpole.go:236-265: the state after one Step of the Euler integration
Physics(state, action) ==
    LET x == state[1]
        xDot == state[2]
        theta == state[3]
        thetaDot == state[4]
        costheta == Cos(theta)
        sintheta == Sin(theta)
        temp == Force(action)
        thetaacc == FSub(FMul(Gravity, sintheta), FMul(costheta, temp))
        xacc == temp
    IN  <<FAdd(x, xDot), FAdd(xDot, xacc), FAdd(theta, thetaDot), FAdd(thetaDot, thetaacc)>>

\* cartpole.go:268-271
Terminated(state) ==
    \/ FLess(state[1], FNeg(XThreshold))
    \/ FGreater(state[1], XThreshold)
    \/ FLess(state[3], FNeg(ThetaThresholdRadians))
    \/ FGreater(state[3], ThetaThresholdRadians)

\* cartpole.go:228: env.actionSpace.Contains(action)
ValidActionAny(actionSpace, action) == TRUE

ValidAction(actionSpace, action) == DiscreteContains(actionSpace, action)

\* cartpole.go:273-300: the counter, the reward and the warning of a Step
\* that leaves the environment terminated or not
Rewarded(env, terminated) ==
    IF ~terminated
    THEN [stepsBeyondTerminated |-> env.stepsBeyondTerminated,
          reward |-> IF env.suttonBartoReward THEN 0 ELSE 1, warned |-> FALSE]
    ELSE IF env.stepsBeyondTerminated = None
    THEN [stepsBeyondTerminated |-> Some(0),
          reward |-> IF env.suttonBartoReward THEN 0 - 1 ELSE 1, warned |-> FALSE]
    ELSE [stepsBeyondTerminated |-> Some(WrapInt(env.stepsBeyondTerminated[1] + 1)),
          reward |-> IF env.suttonBartoReward THEN 0 - 1 ELSE 0,
          warned |-> env.stepsBeyondTerminated[1] = 0]

\* cartpole.go:227-308: what Step(action) returns and the environment after
Step(env, actionSpace, action) ==
    IF ~ValidAction(actionSpace, action)
    THEN [env |-> env, obs |-> None, reward |-> 0, terminated |-> FALSE,
          truncated |-> FALSE, err |-> "invalid action", warned |-> FALSE]
    ELSE IF env.state = None
    THEN [env |-> env, obs |-> None, reward |-> 0, terminated |-> FALSE,
          truncated |-> FALSE, err |-> "environment state is nil, call Reset first",
          warned |-> FALSE]
    ELSE LET state == Physics(env.state[1], action)
             terminated == Terminated(state)
             r == Rewarded(env, terminated)
         IN  [env |-> [env EXCEPT !.state = Some(state),
                                  !.stepsBeyondTerminated = r.stepsBeyondTerminated],
              obs |-> Some(state), reward |-> r.reward, terminated |-> terminated,
              truncated |-> FALSE, err |-> "", warned |-> r.warned]

\* the environment, its RNG and its episode when a call is made
Before(e) == Some([env |-> envs[e], rng |-> rngs[envs[e].rng], episode |-> episodes[e]])

\* the actions given to Step, and the Steps counted after a termination
Actions == 0..2
MaxBeyond == 3

\* the episode after a Step that returned s
EpisodeAfter(episode, s) ==
    IF s.err # "" THEN episode
    ELSE [episode EXCEPT
              !.reported = episode.reported \/ s.terminated,
              !.beyond = IF episode.reported THEN episode.beyond + 1 ELSE 0,
              !.warnings = episode.warnings + (IF s.warned THEN 1 ELSE 0),
              !.truncated = episode.truncated \/ s.truncated,
              !.steps = IF episode.maxSteps = None THEN 0 ELSE episode.steps + 1,
              !.closed = FALSE]

\* Step(action): the action from actions, at most maxBeyond Steps after a
\* Step has reported terminated and, with a step limit, at most one Step
\* more than the limit
DoStep(actions, maxBeyond) ==
    /\ ecall.op = "none"
    /\ \E e \in 1..Len(envs), action \in actions :
        LET s == Step(envs[e], spaces[envs[e].actionSpace], action)
        IN  /\ episodes[e].reported => episodes[e].beyond < maxBeyond
            /\ episodes[e].maxSteps # None => episodes[e].steps <= episodes[e].maxSteps[1]
            /\ envs' = [envs EXCEPT ![e] = s.env]
            /\ episodes' = [episodes EXCEPT ![e] = EpisodeAfter(@, s)]
            /\ ecall' = [NoEnvCall EXCEPT !.op = "Step", !.env = e, !.action = action,
                            !.obs = s.obs, !.reward = s.reward,
                            !.terminated = s.terminated, !.truncated = s.truncated,
                            !.err = s.err, !.warned = s.warned, !.before = Before(e)]
    /\ UNCHANGED <<rngs, defaultRNG, spaces, trail, scall, memo>>
    /\ UNCHANGED notSpaceVars

\* cartpole.go:313: the seed is given to the RNG
ReseedsNever(seed) == FALSE

Reseeds(seed) == seed # 0

\* cartpole.go:321-329: the bounds of the initial state
ResetLowOf(options) == IF options.low = None THEN DefaultLow ELSE options.low[1]
ResetHighOf(options) == IF options.high = None THEN DefaultHigh ELSE options.high[1]

RECURSIVE InitialState(_, _, _, _)
\* cartpole.go:332-335: the coordinates after those in state, each
\* low + env.rng.Float64()*(high-low), and the generator afterwards
InitialState(r, low, high, state) ==
    IF Len(state) = 4 THEN [rng |-> r, state |-> state]
    ELSE LET d == Draw(r)
         IN  InitialState(d.rng, low, high,
                          Append(state, FAdd(low, FMulUnit(Float64Of(d.value), FSub(high, low)))))

\* cartpole.go:337: env.stepsBeyondTerminated = nil
CounterKept(env) == env.stepsBeyondTerminated

CounterAfterReset(env) == None

\* cartpole.go:311-344: what Reset(seed, options) returns, the environment
\* and its RNG after, the RNG being r before and the effective seed of a
\* Seed being effectiveSeed
Reset(env, r, seed, options, effectiveSeed) ==
    IF Reseeds(seed) /\ seed < 0
    THEN [env |-> env, rng |-> r, obs |-> None, err |-> "failed to seed RNG"]
    ELSE LET seeded == IF Reseeds(seed) THEN RngOf(effectiveSeed) ELSE r
             i == InitialState(seeded, ResetLowOf(options), ResetHighOf(options), <<>>)
         IN  [env |-> [env EXCEPT !.state = Some(i.state),
                                  !.stepsBeyondTerminated = CounterAfterReset(env)],
              rng |-> i.rng, obs |-> Some(i.state), err |-> ""]

\* the seeds and the options given to Reset
ResetSeeds == (0 - 1)..MaxSeed
Bound(x) == [low |-> Some(x), high |-> Some(x)]
ResetOptions == {NoOptions, Bound(ThetaThresholdRadians + 1), [low |-> Some(0), high |-> None]}

\* Reset(ctx, seed, options): where remembers, a successful Reset of a
\* seed > 0 may become the one remembered, when none is
DoReset(seeds, optionses, remembers) ==
    /\ ecall.op = "none"
    /\ \E e \in 1..Len(envs), seed \in seeds, options \in optionses :
        \E effectiveSeed \in EffectiveSeeds(IF seed < 0 THEN 0 ELSE seed) :
            LET s == Reset(envs[e], rngs[envs[e].rng], seed, options, effectiveSeed)
            IN  /\ envs' = [envs EXCEPT ![e] = s.env]
                /\ rngs' = [rngs EXCEPT ![envs[e].rng] = s.rng]
                /\ episodes' = [episodes EXCEPT ![e] =
                        IF s.err = ""
                        THEN [NoEpisode EXCEPT !.maxSteps = episodes[e].maxSteps]
                        ELSE [episodes[e] EXCEPT !.closed = FALSE]]
                /\ ecall' = [NoEnvCall EXCEPT !.op = "Reset", !.env = e, !.seed = seed,
                                !.options = options, !.obs = s.obs, !.err = s.err,
                                !.before = Before(e)]
                /\ \/ UNCHANGED memo
                   \/ /\ remembers
                      /\ memo = None
                      /\ seed > 0
                      /\ s.err = ""
                      /\ memo' = Some([env |-> e, seed |-> seed, options |-> options,
                                     obs |-> s.obs])
    /\ UNCHANGED <<defaultRNG, spaces, trail, scall>>
    /\ UNCHANGED notSpaceVars

\* cartpole.go:347-438: what Render() returns and the environment after
Render(env) ==
    IF env.renderMode = ""
    THEN [env |-> env, err |-> "no render mode specified"]
    ELSE IF env.state = None
    THEN [env |-> env, err |-> "environment state is nil, call Reset first"]
    ELSE [env |-> [env EXCEPT !.screen = TRUE], err |-> ""]

\* Render()
DoRender ==
    /\ ecall.op = "none"
    /\ \E e \in 1..Len(envs) :
        LET s == Render(envs[e])
        IN  /\ envs' = [envs EXCEPT ![e] = s.env]
            /\ episodes' = [episodes EXCEPT ![e].closed = FALSE]
            /\ ecall' = [NoEnvCall EXCEPT !.op = "Render", !.env = e, !.err = s.err,
                            !.before = Before(e)]
    /\ UNCHANGED <<rngs, defaultRNG, spaces, trail, scall, memo>>
    /\ UNCHANGED notSpaceVars

\* a Close that fails on an environment with no screen
CloseOnce(env) ==
    IF env.screen THEN [env |-> [env EXCEPT !.screen = FALSE], err |-> ""]
    ELSE [env |-> env, err |-> "environment is closed"]

\* cartpole.go:218-224: the screen, if there is one, is disposed of and
\* forgotten; the error is nil
Close(env) == [env |-> [env EXCEPT !.screen = FALSE], err |-> ""]

\* Close()
DoClose ==
    /\ ecall.op = "none"
    /\ \E e \in 1..Len(envs) :
        LET s == Close(envs[e])
        IN  /\ envs' = [envs EXCEPT ![e] = s.env]
            /\ episodes' = [episodes EXCEPT ![e].closed = TRUE]
            /\ ecall' = [NoEnvCall EXCEPT !.op = "Close", !.env = e, !.err = s.err,
                            !.before = Before(e)]
    /\ UNCHANGED <<rngs, defaultRNG, spaces, trail, scall, memo>>
    /\ UNCHANGED notSpaceVars

\* the caller is done with what the last call returned
EnvReturn ==
    /\ ecall.op # "none"
    /\ ecall' = NoEnvCall
    /\ UNCHANGED <<rngs, defaultRNG, spaces, trail, scall, envs, episodes, memo>>
    /\ UNCHANGED notSpaceVars

\* the environments made in a run of several
NumEnvs == 2

\* one environment, every operation
EnvNext ==
    \/ DoNewCartPoleEnv(1, SomeConfigs)
    \/ DoReset(ResetSeeds, ResetOptions, FALSE)
    \/ DoStep(Actions, MaxBeyond)
    \/ DoRender
    \/ EnvReturn

SpecEnv == SpaceInit /\ [][EnvNext]_vars

\* NumEnvs environments of the default configuration, reset with a seed
\* that is not negative and pushed to the right until a Step reports
\* terminated
EnvsNext ==
    \/ DoNewCartPoleEnv(NumEnvs, {None})
    \/ DoReset({0, 1}, {NoOptions, [low |-> Some(0), high |-> None]}, TRUE)
    \/ DoStep({1}, 0)
    \/ EnvReturn

SpecEnvs == SpaceInit /\ [][EnvsNext]_vars

\* one environment through its lifecycle: made, reset, stepped until a Step
\* has reported terminated and once more, rendered and closed
LifeNext ==
    \/ DoNewCartPoleEnv(1, SomeConfigs)
    \/ DoReset({1}, {NoOptions, Bound(ThetaThresholdRadians + 1)}, FALSE)
    \/ DoStep({0, 1}, 1)
    \/ DoRender
    \/ DoClose
    \/ EnvReturn

SpecLife == SpaceInit /\ [][LifeNext]_vars

\* NumEnvs environments that are reset, and their Spaces seeded and sampled,
\* one call after the other; no Space is followed in trail
PrivateNext ==
    \/ scall.op = "none" /\ DoNewCartPoleEnv(NumEnvs, {None})
    \/ scall.op = "none" /\ DoReset({0, 1}, {NoOptions}, FALSE)
    \/ ecall.op = "none" /\ DoSpaceSeed /\ trail' = NoTrail
    \/ ecall.op = "none" /\ DoSpaceSample
    \/ SpaceReturn
    \/ EnvReturn

SpecPrivate == SpaceInit /\ [][PrivateNext]_vars

\* the id CartPole is registered under, the step limit it is registered
\* with and the overrides given to Make
CartPoleId == <<"a", "-", "v", "1">>
StepLimit == 3
CartPoleOptions == <<[fn |-> "WithMaxEpisodeSteps", arg |-> StepLimit]>>
CartPoleOverrides == {<<>>, <<[k \in {"sutton_barto_reward"} |-> TRUE]>>}

\* unnamed/part_001:11-31: the factory reads render_mode and
\* sutton_barto_reward from the configuration map
CartPoleConfigOf(config) ==
    Some([SuttonBartoReward |-> IF "sutton_barto_reward" \in DOMAIN config
                                THEN config["sutton_barto_reward"] ELSE FALSE,
          RenderMode |-> IF "render_mode" \in DOMAIN config
                         THEN config["render_mode"] ELSE ""])

\* unnamed/part_001:9-42: gym.Register(id, factory, WithMaxEpisodeSteps(k))
DoRegisterCartPole ==
    /\ call.op = "none"
    /\ CartPoleId \notin DOMAIN specs
    /\ Register(CartPoleId, "newCartPole", CartPoleOptions)
    /\ UNCHANGED notRegVars

\* gym.Make(id, kwargs): the environment is the one the factory returns
\* (gym.go:181-186, unnamed/part_001:33-38)
DoMakeCartPole ==
    /\ call.op = "none"
    /\ ecall.op = "none"
    /\ Len(envs) < 1
    /\ \E kwargs \in CartPoleOverrides : Make(TypeOf("newCartPole"), CartPoleId, kwargs)
    /\ IF call'.err = ""
       THEN NewCartPoleEnv(CartPoleConfigOf(call'.invoked[1].config),
                           specs[CartPoleId].MaxEpisodeSteps)
       ELSE UNCHANGED <<rngs, defaultRNG, spaces, envs, episodes, ecall>>
    /\ UNCHANGED <<idCall, mu, stack, begun, done, rng, rcall, rmu, gor, trail, scall, memo>>

\* an environment made from the registry, reset and stepped
MadeNext ==
    \/ DoRegisterCartPole
    \/ DoMakeCartPole
    \/ Return
    \/ DoReset({0, 1}, {NoOptions}, FALSE)
    \/ DoStep({0, 1}, 1)
    \/ EnvReturn

SpecMade == SpaceInit /\ [][MadeNext]_vars

(***************************************************************************)
(* C1..C5, C8: the registry and its identifiers.                          *)
(***************************************************************************)
IsMake == call.op \in {"Make", "MakeAny"}

\* C1: Make[Obs,Act](id) on a registered id whose spec has other type
\* parameters returns the type-mismatch error and a nil environment, and the
\* registered EntryPoint is not called during that call.
C1_TypeMismatchFailsClosed ==
    (call.op = "Make" /\ call.id \in DOMAIN specs /\ specs[call.id].ty # call.ty)
        => /\ call.err = "incompatible types"
           /\ call.env = None
           /\ call.invoked = <<>>

C1_Witness ==
    /\ call.op = "Make"
    /\ call.id \in DOMAIN specs
    /\ specs[call.id].ty = "int,int"
    /\ call.ty = "[]float64,int"
    /\ call.overrides # <<>>
    /\ call.err = "incompatible types"

\* C2: Make and MakeAny on an id that is no key of the registry return the
\* not-found error and no environment and call no factory, whatever the
\* override maps.
C2_UnknownIdNotFound ==
    (IsMake /\ call.id \notin DOMAIN specs)
        => /\ call.err = "no registered environment"
           /\ call.env = None
           /\ call.invoked = <<>>

C2_Witness ==
    /\ call.op = "MakeAny"
    /\ specs # EmptyMap
    /\ call.id \notin DOMAIN specs
    /\ Len(call.overrides) = 2
    /\ call.err = "no registered environment"

\* the indices of the override maps that hold key k
Holding(overrides, k) == {i \in 1..Len(overrides) : k \in DOMAIN overrides[i]}

\* the kwargs the options of a registration set: for each key, the value of
\* the last WithKwargs option that holds it
KwargsOptions(options) == {i \in 1..Len(options) : options[i].fn = "WithKwargs"}
RegistrationKwargs(options) ==
    LET holds(k) == {i \in KwargsOptions(options) : k \in DOMAIN options[i].arg}
    IN  [k \in UNION {DOMAIN options[i].arg : i \in KwargsOptions(options)} |->
            options[SetMax(holds(k))].arg[k]]

\* C3: the configuration Make and MakeAny hand to the factory maps each key
\* to the value of the last override map holding it, otherwise to the value
\* of the registration's kwargs, and has no other key.
C3_MergedConfig ==
    (IsMake /\ call.invoked # <<>>)
        => LET config == call.invoked[1].config
               defaults == RegistrationKwargs(latest[call.id].options)
               ov == call.overrides
           IN  /\ Len(call.invoked) = 1
               /\ DOMAIN config =
                    DOMAIN defaults \cup UNION {DOMAIN ov[i] : i \in 1..Len(ov)}
               /\ \A k \in DOMAIN config :
                    IF Holding(ov, k) # {}
                    THEN config[k] = ov[SetMax(Holding(ov, k))][k]
                    ELSE config[k] = defaults[k]
               /\ call.env # None => call.env[1].config = config

C3_Witness ==
    /\ call.op = "MakeAny"
    /\ call.invoked # <<>>
    /\ call.overrides = <<KwD, KwC>>
    /\ call.invoked[1].config = [k \in {"k1", "k2"} |-> 3]
    /\ latest[call.id].options # <<>>

\* the argument of the last option fn in options, nil when there is none
LastOption(options, fn) ==
    LET at == {i \in 1..Len(options) : options[i].fn = fn}
    IN  IF at = {} THEN None ELSE Some(options[SetMax(at)].arg)

\* the registered spec of key k is the one its latest registration asked for
IsLatest(k) ==
    /\ specs[k].EntryPoint = latest[k].entryPoint
    /\ specs[k].ty = TypeOf(latest[k].entryPoint)
    /\ specs[k].MaxEpisodeSteps = LastOption(latest[k].options, "WithMaxEpisodeSteps")
    /\ specs[k].RewardThreshold = LastOption(latest[k].options, "WithRewardThreshold")
    /\ specs[k].Nondeterministic =
            (LastOption(latest[k].options, "WithNondeterministic") = Some(TRUE))
    /\ specs[k].Kwargs = RegistrationKwargs(latest[k].options)

LastWriteWins ==
    /\ DOMAIN latest = DOMAIN specs
    /\ \A k \in DOMAIN specs : IsLatest(k)
    /\ (IsMake /\ call.invoked # <<>>)
            => call.invoked[1].entryPoint = latest[call.id].entryPoint
    /\ (call.op = "Spec" /\ call.spec # None)
            => call.spec[1] = specs[call.id] /\ IsLatest(call.id)

\* a Register call of an id that is registered already
ReRegisters ==
    /\ call.op = "none"
    /\ call'.op = "Register"
    /\ call'.id \in {latest[k].id : k \in DOMAIN latest}

\* C4: registering an id again never fails: the call returns nil, the number
\* of registered ids does not grow, the id's spec is that of this latest
\* registration, and Make and Spec use it from then on.
C4_LastWriteWins ==
    [][/\ ReRegisters =>
            /\ call'.err = ""
            /\ Cardinality(DOMAIN specs') = Cardinality(DOMAIN specs)
            /\ \E k \in DOMAIN specs :
                /\ latest[k].id = call'.id
                /\ latest'[k] = [id |-> call'.id, entryPoint |-> call'.entryPoint,
                                 options |-> call'.options]
                /\ \A o \in DOMAIN specs \ {k} : specs'[o] = specs[o]
       /\ LastWriteWins']_vars

C4_Witness ==
    /\ call.op = "Make"
    /\ call.invoked # <<>>
    /\ call.invoked[1].entryPoint = "newOther"
    /\ Cardinality(DOMAIN specs) = 2
    /\ \E k \in DOMAIN specs :
        specs[k].EntryPoint = "failing" /\ specs[k].MaxEpisodeSteps = None

(***************************************************************************)
(* C6, C7: the registry called concurrently.                               *)
(***************************************************************************)
\* the spec stored under key k is whole: parsed, with every option applied
Complete(spec, k) ==
    /\ spec.ID = k
    /\ spec.Name = k
    /\ spec.EntryPoint \in ConcEntryPoints(k)
    /\ spec.MaxEpisodeSteps = Some(3)
    /\ spec.Kwargs = KwB
    /\ spec.OrderEnforce

\* the calls in progress
Frames == UNION {{stack[t][i] : i \in 1..Len(stack[t])} : t \in Goroutines}

\* C6: under every interleaving of Register calls with ListRegistered, Make,
\* MakeAny and Spec, every id whose Register has returned is registered, no
\* id is registered that no Register was called with, every registered spec
\* is whole, a list holds each registered id exactly once, and what a reader
\* has read stays what the registry holds until the reader unlocks.
C6_NoLostRegistration ==
    /\ done \subseteq DOMAIN specs
    /\ DOMAIN specs \subseteq begun
    /\ \A k \in DOMAIN specs : Complete(specs[k], k)
    /\ \A f \in Frames :
        /\ (f.op = "ListRegistered" /\ f.pc = "runlock") =>
            /\ Len(f.ids) = Cardinality(DOMAIN specs)
            /\ {f.ids[i] : i \in 1..Len(f.ids)} = DOMAIN specs
        /\ (f.op \in {"Make", "MakeAny", "Spec"} /\ f.spec # None) =>
            /\ f.id \in DOMAIN specs
            /\ f.spec[1] = specs[f.id]

C6_Witness ==
    /\ done = {IdA, IdN}
    /\ mu.writer # 0
    /\ \E f \in Frames : f.op = "ListRegistered" /\ f.pc = "runlock" /\ Len(f.ids) = 2
    /\ \E f \in Frames : f.op = "Register" /\ f.pc = "locked"

\* the call goroutine t is in waits for the registry lock
Blocked(t) ==
    /\ stack[t] # <<>>
    /\ \/ Top(t).pc \in {"lock", "rlock"} /\ ~WriterFree(mu)
       \/ Top(t).pc = "locked" /\ ~NoReaders(mu)

\* C7: no registry operation blocks for ever: whenever a call waits for the
\* lock, some call in progress can take its next step (a call only ever
\* waits for calls in progress, so when all of them wait none returns).
C7_NoCallBlocksForever ==
    \A t \in Goroutines :
        Blocked(t) => \E u \in Goroutines : stack[u] # <<>> /\ ~Blocked(u)

\* the characters of the grammar [namespace/]name[-v<digits>]
GrammarDigit == {"0", "1", "2", "3", "4", "5", "6", "7", "8", "9"}
GrammarWord == GrammarDigit \cup {"a", "n", "v", "_"}
\* the grammar: a string is in it when it splits into an optional namespace
\* and '/', a name, and an optional "-v" and digits
InGrammar(s) ==
    \E slash \in 0..Len(s), nameEnd \in 1..Len(s) :
        /\ slash < nameEnd
        /\ slash > 0 =>
            /\ slash >= 2
            /\ s[slash] = "/"
            /\ \A i \in 1..(slash - 1) : s[i] \in GrammarWord \cup {":", "-"}
        /\ \A i \in (slash + 1)..nameEnd : s[i] \in GrammarWord \cup {":", ".", "-"}
        /\ nameEnd < Len(s) =>
            /\ Len(s) >= nameEnd + 3
            /\ s[nameEnd + 1] = "-"
            /\ s[nameEnd + 2] = "v"
            /\ \A i \in (nameEnd + 3)..Len(s) : s[i] \in GrammarDigit

\* C5: ParseEnvID fails with the malformed-ID error on every string outside
\* the grammar, and Register of such an id returns that error, applies no
\* option and leaves the registry as it was.
C5_MalformedIdRejected ==
    [][(~idCall.done /\ idCall'.done /\ idCall.op \in {"ParseEnvID", "Register"}
            /\ ~InGrammar(idCall.id))
        => /\ idCall'.parsed.err = "malformed"
           /\ idCall'.parsed.name = <<>>
           /\ idCall.op = "Register" =>
                /\ call'.op = "Register"
                /\ call'.err = idCall'.parsed.err
                /\ call'.applied = 0
                /\ specs' = specs
                /\ latest' = latest]_vars

C5_Witness ==
    /\ idCall.op = "Register"
    /\ idCall.done
    /\ idCall.id = <<"a", " ", "v">>
    /\ call.err = "malformed"
    /\ specs # EmptyMap

\* the name is some characters followed by "-v" and digits
EndsInVersion(name) ==
    \E k \in 1..(Len(name) - 3) :
        /\ name[k + 1] = "-"
        /\ name[k + 2] = "v"
        /\ \A i \in (k + 3)..Len(name) : name[i] \in GrammarDigit

RoundTrips ==
    /\ idCall.parsed.err = ""
    /\ idCall.parsed.namespace = idCall.namespace
    /\ idCall.parsed.name = idCall.name
    /\ idCall.parsed.version = idCall.version

\* C8 as claimed: ParseEnvID(GetEnvID(ns, name, ver)) = (ns, name, ver) for
\* every namespace, name and version of the grammar, names ending in
\* "-v<digits>" with no version included.
C8_RoundTripAnyName == (idCall.op = "RoundTrip" /\ idCall.done) => RoundTrips

\* C8, amended: ParseEnvID(GetEnvID(ns, name, ver)) = (ns, name, ver) unless
\* no version is given and the name is some characters followed by
\* "-v<digits>".
C8_RoundTrip ==
    (/\ idCall.op = "RoundTrip"
     /\ idCall.done
     /\ ~(idCall.version = None /\ EndsInVersion(idCall.name)))
        => RoundTrips

C8_Witness ==
    /\ idCall.op = "RoundTrip"
    /\ idCall.done
    /\ idCall.namespace = Some(<<"a", "-">>)
    /\ idCall.name = <<"a", "-", "v", "1">>
    /\ idCall.version = Some(10)
    /\ idCall.id = <<"a", "-", "/", "a", "-", "v", "1", "-", "v", "1", "0">>
    /\ RoundTrips

(***************************************************************************)
(* C9, C10: the RNG.                                                       *)
(***************************************************************************)
\* the values the sampling operations would return next on the RNG r
NextOutputs(r) == [op \in PlainOps |-> Sampled(r[1], op, 1).value]

\* C9: NewRNG(seed) and Seed(seed) fail exactly when seed < 0; a failing
\* Seed leaves the generator state and the stored seed as they were, so the
\* next outputs are those of the RNG before the call; a successful Seed(s),
\* s > 0, returns s, leaves an RNG whose GetSeed returns s and whose state
\* is that of a new generator of seed s, whatever the state before.
C9_SeedValidation ==
    /\ rcall.op \in {"NewRNG", "Seed"} => ((rcall.err # "") <=> (rcall.n < 0))
    /\ (rcall.op = "Seed" /\ rcall.n < 0) =>
        /\ rng = rcall.before
        /\ NextOutputs(rng) = NextOutputs(rcall.before)
        /\ rcall.ret = <<0>>
    /\ (rcall.op = "Seed" /\ rcall.n > 0) =>
        /\ rcall.ret = <<rcall.n>>
        /\ rng[1].seed = rcall.n
        /\ rng[1].state = PcgNew(rcall.n)
        /\ NextOutputs(rng) = NextOutputs(Some(RngOf(rcall.n)))
    /\ (rcall.op = "Seed" /\ rcall.n = 0) =>
        /\ rcall.ret[1] > 0
        /\ rng = Some(RngOf(rcall.ret[1]))
    /\ rcall.op = "GetSeed" => rcall.ret = <<rng[1].seed>> /\ rng = rcall.before

\* a negative seed given to an RNG that has drawn since it was seeded
C9_Witness ==
    /\ rcall.op = "Seed"
    /\ rcall.n < 0
    /\ rcall.err # ""
    /\ rcall.before # None
    /\ rcall.before[1].state # PcgNew(rcall.before[1].seed)

\* a goroutine between the return of r.mu.Lock() and the deferred Unlock
InCritical(t) == gor[t].pc \in {"read", "write", "swap", "unlock"}
\* a goroutine whose last call has returned or panicked
Outside(t) == gor[t].pc \in {"idle", "panicked"}

\* C10: a goroutine reads and writes the generator only while it holds the
\* RNG's lock as the writer and no reader holds it; two goroutines are never
\* both between Lock and Unlock; the state a draw read is still the
\* generator's state when the draw writes; a goroutine whose call has
\* returned or panicked holds nothing, and with every goroutine outside a
\* call the lock is free.
C10_Serialized ==
    /\ \A t \in Goroutines :
        /\ InCritical(t) => rmu.writer = t /\ NoReaders(rmu)
        /\ (gor[t].pc = "write" /\ gor[t].op # "Seed") => gor[t].local = rng[1].state
        /\ Outside(t) => rmu.writer # t /\ rmu.readers[t] = 0
        /\ gor[t].pc \in {"rread", "runlock"} => rmu.readers[t] = 1
    /\ \A t, u \in Goroutines : (InCritical(t) /\ InCritical(u)) => t = u
    /\ (\A t \in Goroutines : Outside(t)) => (WriterFree(rmu) /\ NoReaders(rmu))

\* a swap function has panicked in one goroutine, an invalid n in none yet,
\* and another goroutine is drawing under the lock
C10_Witness ==
    \E t, u \in Goroutines :
        /\ gor[t] = RngGoPanicked("swap")
        /\ gor[u].pc = "write"
        /\ gor[u].op = "Draw"
        /\ rmu.writer = u

(***************************************************************************)
(* C11..C15: the Spaces.                                                   *)
(***************************************************************************)
RECURSIVE NthSample(_, _, _)
\* the k-th value that Sample of the Space sp returns from the generator r
\* when nothing else draws from it
NthSample(sp, r, k) ==
    IF k <= 1 THEN SpaceSample(sp, r).value
    ELSE NthSample(sp, SpaceSample(sp, r).rng, k - 1)

\* C11: whatever is called on the other Spaces, the k-th Sample of a Space
\* after its own Seed(s), s > 0, returns the k-th sample of a generator
\* seeded with s that nothing else has drawn from.
C11_NoImplicitSharing ==
    (/\ scall.op = "Sample"
     /\ scall.err = ""
     /\ trail.space = scall.space
     /\ trail.count > 0)
        => scall.ret[1] = NthSample(spaces[scall.space], RngOf(trail.seed), trail.count)

\* the Space a call was made on
Called == spaces[scall.space]
IsCall(op, kind) ==
    /\ scall.op = op
    /\ scall.space # 0
    /\ spaces[scall.space].kind = kind

\* C12: NewDiscrete fails, returning no Space, exactly when n <= 0; every
\* Sample(nil, nil) of a Discrete returns v with start <= v < start+n;
\* Contains(x) is true exactly when start <= x < start+n.
C12_DiscreteRange ==
    /\ scall.op = "NewDiscrete" =>
        /\ (scall.err # "") <=> (scall.args[1] <= 0)
        /\ (scall.space = 0) <=> (scall.args[1] <= 0)
    /\ (IsCall("Sample", "Discrete") /\ scall.err = "") =>
        /\ Called.start <= scall.ret[1]
        /\ scall.ret[1] < Called.start + Called.n
    /\ IsCall("Contains", "Discrete") =>
        (scall.ret[1] <=> (Called.start <= scall.args[1]
                            /\ scall.args[1] < Called.start + Called.n))

\* C13: every Sample(nil, nil) of a Box has len(low) coordinates; coordinate
\* i is in [low[i], high[i]] when both are finite, >= low[i] when only low[i]
\* is finite, <= high[i] when only high[i] is finite; Contains of the sample
\* is true.
C13_BoxSampleInside ==
    (IsCall("Sample", "Box") /\ scall.err = "") =>
        /\ Len(scall.ret[1]) = Len(Called.low)
        /\ \A i \in 1..Len(Called.low) :
            /\ IsFinite(Called.low[i]) => FLeq(Called.low[i], scall.ret[1][i])
            /\ IsFinite(Called.high[i]) => FLeq(scall.ret[1][i], Called.high[i])
        /\ BoxContains(Called, scall.ret[1])

\* the vector that an argument of NewBox stands for, when low has n elements
Resolved(bound, n) == IF bound.type = "float64" THEN Filled(n, bound.v[1]) ELSE bound.v

\* C15: NewBox returns a Box only when low and high resolve to vectors of
\* equal length with low[i] <= high[i] for every i; a scalar low without a
\* shape, unequal lengths and a low[i] > high[i] give an error and no Box;
\* in a Box, boundedBelow[i] is true when low[i] is not infinite and
\* boundedAbove[i] is true when high[i] is not infinite, and each is false
\* at the infinity of its side.
C15_BoxConstruction ==
    /\ IsCall("NewBox", "Box") =>
        /\ scall.err = ""
        /\ Len(Called.low) = Len(Called.high)
        /\ Len(Called.boundedBelow) = Len(Called.low)
        /\ Len(Called.boundedAbove) = Len(Called.low)
        /\ \A i \in 1..Len(Called.low) :
            /\ FLeq(Called.low[i], Called.high[i])
            /\ ~IsInf(Called.low[i]) => Called.boundedBelow[i]
            /\ ~IsInf(Called.high[i]) => Called.boundedAbove[i]
            /\ Called.low[i] = NegInf => ~Called.boundedBelow[i]
            /\ Called.high[i] = PosInf => ~Called.boundedAbove[i]
    /\ scall.op = "NewBox" =>
        LET low == scall.args[1]
            high == scall.args[2]
            shape == scall.args[3]
        IN  /\ (low.type = "float64" /\ shape = <<>>) => (scall.err # "" /\ scall.space = 0)
            /\ (low.type = "[]float64" /\ high.type = "[]float64" /\ Len(low.v) # Len(high.v))
                    => (scall.err # "" /\ scall.space = 0)
            /\ (low.type = "[]float64" /\ high.type \in {"float64", "[]float64"}
                /\ \E i \in 1..Len(low.v) :
                        /\ i <= Len(Resolved(high, Len(low.v)))
                        /\ FGreater(low.v[i], Resolved(high, Len(low.v))[i]))
                    => (scall.err # "" /\ scall.space = 0)
            /\ (scall.err # "" \/ scall.panics) <=> (scall.space = 0)

\* C14: for a batch xs of members of the Space, of any length from 0,
\* FromJSONable(ToJSONable(xs)) returns no error and a batch of the same
\* length whose elements equal those of xs, in order.
ValidSample(sp, x) ==
    IF sp.kind = "Discrete" THEN sp.start <= x /\ x < sp.start + sp.n
    ELSE /\ Len(x) = Len(sp.low)
         /\ \A i \in 1..Len(x) : FLeq(sp.low[i], x[i]) /\ FLeq(x[i], sp.high[i])
SampleEq(sp, x, y) ==
    IF sp.kind = "Discrete" THEN x = y
    ELSE Len(x) = Len(y) /\ \A i \in 1..Len(x) : FEq(x[i], y[i])
C14_JSONRoundTrip ==
    (/\ scall.op = "RoundTrip"
     /\ \A i \in 1..Len(scall.args[1]) : ValidSample(Called, scall.args[1][i]))
        => /\ scall.err = ""
           /\ scall.ret # None
           /\ Len(scall.ret[1]) = Len(scall.args[1])
           /\ \A i \in 1..Len(scall.args[1]) :
                SampleEq(Called, scall.ret[1][i], scall.args[1][i])

\* a batch of two different members of a Box has come back
C14_Witness ==
    /\ IsCall("RoundTrip", "Box")
    /\ Len(scall.args[1]) = 2
    /\ scall.args[1][1] # scall.args[1][2]
    /\ \A i \in 1..2 : ValidSample(Called, scall.args[1][i])
    /\ scall.ret = Some(scall.args[1])

(***************************************************************************)
(* C16..C20: the CartPole environment.                                     *)
(***************************************************************************)
\* the environment of the last call, as it is and as it was when the call
\* was made
Env == envs[ecall.env]
Was == ecall.before[1]

\* the state vector, the counter and the RNG are as before the call
Untouched ==
    /\ Env.state = Was.env.state
    /\ Env.stepsBeyondTerminated = Was.env.stepsBeyondTerminated
    /\ rngs[Env.rng] = Was.rng

\* the last call's action is in the action space
ActionContained == DiscreteContains(spaces[Env.actionSpace], ecall.action)

\* C16: a Step with an action that is not in the action space returns the
\* invalid-action error, a Step before any Reset the not-ready error, a
\* Render without a render mode or before the first Reset an error, and each
\* leaves the state vector, the counter and the RNG as they were.
C16_ProtocolErrors ==
    /\ (ecall.op = "Step" /\ ~ActionContained)
            => (ecall.err = "invalid action" /\ Untouched)
    /\ (ecall.op = "Step" /\ ActionContained /\ Was.env.state = None)
            => (ecall.err = "environment state is nil, call Reset first" /\ Untouched)
    /\ (ecall.op = "Render" /\ (Was.env.renderMode = "" \/ Was.env.state = None))
            => (ecall.err # "" /\ Untouched)

\* a Step with an action outside the action space, after a termination
C16_Witness ==
    /\ ecall.op = "Step"
    /\ ~ActionContained
    /\ ecall.err = "invalid action"
    /\ Was.env.stepsBeyondTerminated # None
    /\ Untouched

\* the last call is a successful Reset of the remembered seed and options
ResetAgain ==
    /\ memo # None
    /\ ecall.op = "Reset"
    /\ ecall.err = ""
    /\ ecall.seed = memo[1].seed
    /\ ecall.options = memo[1].options

\* C17: a Reset(s, options), s > 0, returns the observation that the
\* remembered Reset of the same seed and options returned, whatever Reset and
\* Step calls were made before it on its environment or on the other, and
\* leaves the RNG with the seed s.
C17_SeedingReproducible ==
    ResetAgain => (ecall.obs = memo[1].obs /\ rngs[Env.rng].seed = ecall.seed)

\* the remembered seed and options given again to the other environment,
\* after an episode of it that ended and with its generator elsewhere
C17_Witness ==
    /\ ResetAgain
    /\ ecall.env # memo[1].env
    /\ Was.episode.reported
    /\ Was.rng # RngOf(ecall.seed)
    /\ ecall.obs = memo[1].obs

\* the last call, a Reset, drew the initial state from a generator that was
\* just seeded with effectiveSeed
DrewFrom(effectiveSeed) ==
    LET i == InitialState(RngOf(effectiveSeed), ResetLowOf(ecall.options),
                          ResetHighOf(ecall.options), <<>>)
    IN  /\ ecall.err = ""
        /\ ecall.obs = Some(i.state)
        /\ Env.state = Some(i.state)
        /\ rngs[Env.rng] = i.rng

\* C18: a Reset with a seed that is not negative, 0 included, seeds the
\* environment's RNG before it draws the initial state, with a seed derived
\* from the time when the seed is 0; a Reset with a negative seed fails and
\* leaves the state vector, the counter and the RNG as they were.
C18_ResetReseeds ==
    /\ (ecall.op = "Reset" /\ ecall.seed >= 0)
            => \E effectiveSeed \in EffectiveSeeds(ecall.seed) : DrewFrom(effectiveSeed)
    /\ (ecall.op = "Reset" /\ ecall.seed < 0) => (ecall.err # "" /\ Untouched)

\* the last call is a Step with a valid action in an episode in which a
\* Step had reported terminated
Overstep ==
    /\ ecall.op = "Step"
    /\ ActionContained
    /\ Was.episode.reported

\* C19: a Step with a valid action after a Step has reported terminated
\* returns a nil error and raises the counter by one, so that the counter is
\* the number of such Steps since, and the warning is printed by the first of
\* them only.
C19_OverstepCounted ==
    Overstep =>
        /\ ecall.err = ""
        /\ Env.stepsBeyondTerminated = Some(episodes[ecall.env].beyond)
        /\ ecall.warned = (episodes[ecall.env].beyond = 1)
        /\ episodes[ecall.env].warnings = 1

\* C20: a Step with a valid action after a Step has reported terminated
\* returns the reward 0, whatever the configuration.
C20_DegenerateReward == Overstep => ecall.reward = 0

(***************************************************************************)
(* C24, C27, C29: errors, keys and shapes.                                 *)
(***************************************************************************)
\* C24: no call panics: an invalid argument of an RNG method or of a Space's
\* constructor is returned to the caller as an error.
C24_NoPanic == ~rcall.panics /\ ~scall.panics

\* the id strings whose Register returned nil and was not followed by a
\* registration of the same environment
RegisteredIds == {latest[k].id : k \in DOMAIN latest}

\* C27: Make, MakeAny and Spec called with an id string that Register
\* accepted do not return not-found, and ListRegistered returns that string.
C27_SameKey ==
    /\ (call.op \in {"Make", "MakeAny", "Spec"} /\ call.id \in RegisteredIds)
            => call.err # "no registered environment"
    /\ call.op = "ListRegistered"
            => \A id \in RegisteredIds : \E i \in 1..Len(call.ids) : call.ids[i] = id

\* C29: the product of the dimensions of a Box's shape is the length of its
\* bounds.
C29_ShapeConsistent ==
    \A a \in 1..Len(spaces) :
        spaces[a].kind = "Box"
            => /\ Product(spaces[a].shape) = Len(spaces[a].low)
               /\ Len(spaces[a].low) = Len(spaces[a].high)

(***************************************************************************)
(* C21..C23, C25, C26, C30: the episodes of the CartPole environment.      *)
(***************************************************************************)
\* C23: the observation that a successful Reset or Step returns is an
\* element of the environment's observation space.
C23_ObservationInSpace ==
    (ecall.op \in {"Reset", "Step"} /\ ecall.err = "")
        => BoxContains(spaces[Env.observationSpace], ecall.obs[1])

\* the reward of a Step that does not terminate
RunningReward == IF Env.suttonBartoReward THEN 0 ELSE 1

\* C26: once a Step has returned terminated = true, every later Step with a
\* valid action before the next Reset returns terminated = true, and not the
\* reward of a Step that does not terminate.
C26_StickyTermination ==
    Overstep => (ecall.terminated /\ ecall.reward # RunningReward)

\* the initial state that the last call, a Reset, had to draw: from the
\* generator as it was, or as the seed given makes it
FreshState ==
    InitialState(IF ecall.seed = 0 THEN Was.rng ELSE RngOf(ecall.seed),
                 ResetLowOf(ecall.options), ResetHighOf(ecall.options), <<>>).state

\* C25: after a successful Reset, from any state, the state is freshly drawn
\* and the counter is unset, and the first Step of the episode that
\* terminates pays the reward of a termination, prints no warning and leaves
\* the counter at 0.
C25_ResetDiscards ==
    /\ (ecall.op = "Reset" /\ ecall.err = "")
            => /\ Env.state = Some(FreshState)
               /\ ecall.obs = Some(FreshState)
               /\ Env.stepsBeyondTerminated = None
    /\ (ecall.op = "Step" /\ ecall.err = "" /\ ~Was.episode.reported)
            => /\ Was.env.stepsBeyondTerminated = None
               /\ ecall.terminated
                    => /\ ecall.reward = (IF Env.suttonBartoReward THEN 0 - 1 ELSE 1)
                       /\ ~ecall.warned
                       /\ Env.stepsBeyondTerminated = Some(0)

\* a Reset of an environment whose episode had terminated, been stepped
\* further and warned about
C25_Witness ==
    /\ ecall.op = "Reset"
    /\ ecall.err = ""
    /\ Was.episode.beyond > 1
    /\ Was.episode.warnings = 1
    /\ Was.env.stepsBeyondTerminated # None
    /\ Env.stepsBeyondTerminated = None
    /\ Env.state # Was.env.state

\* C22: Close returns a nil error from every lifecycle state (never reset,
\* ready, terminated, already closed), changes nothing of the environment
\* but its screen, and a Close that follows a Close leaves the environment
\* as the first Close left it.
C22_CloseIdempotent ==
    ecall.op = "Close"
        => /\ ecall.err = ""
           /\ Env = [Was.env EXCEPT !.screen = FALSE]
           /\ Close(Env).env = Env
           /\ Was.episode.closed => Env = Was.env

\* a terminated environment that had been rendered and closed is closed again
C22_Witness ==
    /\ ecall.op = "Close"
    /\ Was.episode.closed
    /\ Was.episode.reported
    /\ Env.renderMode # ""
    /\ Env.stepsBeyondTerminated # None

\* C21: an environment made from a spec registered with MaxEpisodeSteps = k
\* has, by the k-th Step of an episode with valid actions, returned
\* terminated or truncated from some Step, and the Step after that returns
\* without error.
C21_StepLimit ==
    /\ \A e \in 1..Len(envs) :
            (episodes[e].maxSteps # None /\ episodes[e].steps >= episodes[e].maxSteps[1])
                => (episodes[e].reported \/ episodes[e].truncated)
    /\ (ecall.op = "Step" /\ Was.episode.maxSteps # None /\ Was.env.state # None
            /\ ActionContained)
                => ecall.err = ""

\* the RNG of environment e is after the step what it was before
RNGKept(e) == rngs'[envs[e].rng] = rngs[envs[e].rng]

\* C30: seeding or sampling a Space of an environment leaves the RNG of every
\* environment as it was, a Reset of an environment leaves the RNG of every
\* other environment as it was, and a Reset leaves the RNG of every Space as
\* it was.
C30_PrivateRNG ==
    [][/\ (scall.op = "none" /\ scall'.op \in {"Seed", "Sample"})
            => \A e \in 1..Len(envs) : RNGKept(e)
       /\ (ecall.op = "none" /\ ecall'.op = "Reset")
            => /\ \A e \in 1..Len(envs) : e # ecall'.env => RNGKept(e)
               /\ \A a \in 1..Len(spaces) : rngs'[spaces[a].rng] = rngs[spaces[a].rng]]_vars

\* the action space of the first of two environments, both reset, has been
\* seeded
C30_Witness ==
    /\ Len(envs) = NumEnvs
    /\ \A e \in 1..Len(envs) : envs[e].state # None
    /\ scall.op = "Seed"
    /\ scall.err = ""
    /\ scall.space = envs[1].actionSpace
    /\ rngs[spaces[scall.space].rng] = RngOf(scall.ret[1])
    /\ rngs[envs[1].rng] # rngs[envs[2].rng]

\* the spec that the last Register of the id k has stored
Registered(k) ==
    ApplyOptions(NewEnvSpec(ParseEnvID(latest[k].id), latest[k].entryPoint),
                 latest[k].options)

\* C28: a Make, MakeAny, Spec or ListRegistered, failing or not, leaves the
\* registry (the ids, and each spec with its factory, options and Kwargs) as
\* it was, and a factory is given the Kwargs of the last Register of its id
\* merged with the overrides of the call, whatever earlier calls overrode
\* and earlier factories wrote into their configuration.
C28_ReadOnly ==
    [][(call.op = "none" /\ call'.op \in {"Make", "MakeAny", "Spec", "ListRegistered"})
            => /\ specs' = specs
               /\ call'.invoked # <<>>
                    => call'.invoked[1].config
                            = MergeAll(Registered(call'.id).Kwargs, call'.overrides)]_vars

\* a Make with overrides of a spec with Kwargs has run a factory that writes
\* into its configuration
C28_Witness ==
    /\ call.op = "Make"
    /\ call.overrides # <<>>
    /\ call.invoked # <<>>
    /\ call.invoked[1].entryPoint # "newEnv"
    /\ specs[call.id].Kwargs # EmptyMap
    /\ Written(call.invoked[1].entryPoint, call.invoked[1].config) # specs[call.id].Kwargs

====
